---- MODULE Spec2Model ----
(***************************************************************************)
(* Model of the SAS container engine: SasContainerRegistry (the document   *)
(* template and ensureSpecFile) and SasOrchestrator (the section store,    *)
(* the list codecs, the determinacy evaluator, the phase tracker and the   *)
(* gating operations).                                                     *)
(*                                                                         *)
(* Text is a sequence of tokens.  A token stands for a fixed piece of      *)
(* text; "\n" and " " are the white-space tokens, "## " is the heading     *)
(* prefix, and every section heading is the prefix followed by one title   *)
(* token.  String positions are 1-based here (JavaScript's are 0-based),   *)
(* and 0 stands for indexOf's -1.                                          *)
(***************************************************************************)
EXTENDS Integers, Sequences, FiniteSets, TLC

\* ------------------------------------------------------------------------
\* Bounds of the model
\* ------------------------------------------------------------------------

\* number of mutating operations in one behaviour of Spec
MaxOps == 2

\* number of plan operations in one behaviour of SpecPlan
MaxPlanOps == 3

\* constructions and recordings in the specification of ensureInitialized
MaxEnsureOps == 3

\* section writes in the specification of the section store
MaxSectionOps == 2

\* events in the specification of recordSayEvent
MaxSayOps == 1

\* writes and edits in the specification of the queries
MaxQueryOps == 2

\* phase changes and section writes in the specification of storage failures
MaxFaultOps == 1

\* length of the raw container ids enumerated
MaxIdLen == 3

\* restarts and phase changes in the specification of engine restarts
MaxRestartOps == 3

\* lines of a Mechanics body, and entries of a list, in the specification of
\* the codecs
MaxBodyLines == 2

\* recording and marking operations in a run of SpecRecord
MaxRecordOps == 2

\* lines of the plan in a run of SpecProgress
MaxPlanLines == 3

\* ------------------------------------------------------------------------
\* Tokens and string primitives
\* ------------------------------------------------------------------------

NL == "\n"

SP == " "

HP == "## "

TS == "<timestamp>"

IsSpace(t) == t \in {NL, SP}

\* String.prototype.toLowerCase, token by token
LowerTok(t) ==
    CASE t = "LINT" -> "lint"
      [] t = "Deploy" -> "deploy"
      [] t = "Pending" -> "pending"
      [] t = "Plan" -> "plan"
      [] t = "[X]" -> "[x]"
      [] t = "[SATISFIED]" -> "[satisfied]"
      [] t = "[Violated]" -> "[violated]"
      [] t = "[Unknown]" -> "[unknown]"
      [] OTHER -> t

ToLowerCase(s) == [i \in 1..Len(s) |-> LowerTok(s[i])]

Min(S) == CHOOSE i \in S : \A j \in S : i <= j

Max(S) == CHOOSE i \in S : \A j \in S : i >= j

\* String.prototype.indexOf(pat, from): first position >= from, 0 if none; the
\* text is scanned a stretch of positions at a time, up to the first hit
RECURSIVE IndexOf(_, _, _)
IndexOf(s, pat, from) ==
    LET final == Len(s) - Len(pat) + 1
        hits == {i \in from..Min({from + 7, final}) :
                    s[i] = pat[1] /\ SubSeq(s, i, i + Len(pat) - 1) = pat}
    IN IF from > final THEN 0
       ELSE IF hits # {} THEN Min(hits)
       ELSE IndexOf(s, pat, from + 8)

Includes(s, pat) == IndexOf(s, pat, 1) # 0

EndsWith(s, pat) ==
    /\ Len(s) >= Len(pat)
    /\ SubSeq(s, Len(s) - Len(pat) + 1, Len(s)) = pat

RECURSIVE TrimEnd(_)
TrimEnd(s) ==
    IF s = <<>> THEN <<>>
    ELSE IF IsSpace(s[Len(s)]) THEN TrimEnd(SubSeq(s, 1, Len(s) - 1))
    ELSE s

RECURSIVE TrimStart(_)
TrimStart(s) ==
    IF s = <<>> THEN <<>>
    ELSE IF IsSpace(s[1]) THEN TrimStart(Tail(s))
    ELSE s

Trim(s) == TrimStart(TrimEnd(s))

\* String.prototype.split("\n")
RECURSIVE Split(_)
Split(s) ==
    LET i == IndexOf(s, <<NL>>, 1)
    IN IF i = 0 THEN <<s>>
       ELSE <<SubSeq(s, 1, i - 1)>> \o Split(SubSeq(s, i + 1, Len(s)))

\* Array.prototype.join("\n")
RECURSIVE Join(_)
Join(lines) ==
    IF Len(lines) = 0 THEN <<>>
    ELSE IF Len(lines) = 1 THEN lines[1]
    ELSE lines[1] \o <<NL>> \o Join(Tail(lines))

\* ------------------------------------------------------------------------
\* SasContainerRegistry
\* ------------------------------------------------------------------------

SECTION_HEADINGS ==
    [taskClaim      |-> <<HP, "0. Task-Claim (C_t, E_t)">>,
     mappingLayer   |-> <<HP, "1. Mapping Layer for this Container">>,
     mechanics      |-> <<HP, "2. Mechanics & Invariants">>,
     mappingTable   |-> <<HP, "3. Code Mapping Table">>,
     plan           |-> <<HP, "4. Plan State (Agent 2 Output)">>,
     implementation |-> <<HP, "5. Implementation Diffs (Agent 3 Output)">>,
     openQuestions  |-> <<HP, "6. Open Questions / Indeterminate Regions">>]

FRONTMATTER_DELIMITER == <<"---">>

\* the characters a container id keeps
ALNUM ==
    {"a", "b", "c", "d", "e", "f", "g", "h", "i", "j", "k", "l", "m", "n", "o", "p", "q",
     "r", "s", "t", "u", "v", "w", "x", "y", "z",
     "0", "1", "2", "3", "4", "5", "6", "7", "8", "9"}

\* String.prototype.toLowerCase, character by character
LowerChar(c) ==
    CASE c = "A" -> "a"
      [] c = "K" -> "k"
      [] c = "S" -> "s"
      [] c = "T" -> "t"
      [] OTHER -> c

\* the characters after a leading run of characters outside a-z0-9
RECURSIVE SkipRun(_)
SkipRun(chars) ==
    IF chars = <<>> \/ chars[1] \in ALNUM THEN chars ELSE SkipRun(Tail(chars))

\* replace(/[^a-z0-9]+/g, "-")
RECURSIVE Hyphenate(_)
Hyphenate(chars) ==
    IF chars = <<>> THEN <<>>
    ELSE IF chars[1] \in ALNUM THEN <<chars[1]>> \o Hyphenate(Tail(chars))
    ELSE <<"-">> \o Hyphenate(SkipRun(chars))

\* only a leading hyphen is removed
StripHyphens_LeadingOnly(chars) ==
    SubSeq(chars, IF chars # <<>> /\ chars[1] = "-" THEN 2 ELSE 1, Len(chars))

\* replace(/(^-|-$)+/g, "")
StripHyphens(chars) ==
    SubSeq(chars,
           IF chars # <<>> /\ chars[1] = "-" THEN 2 ELSE 1,
           IF Len(chars) > 1 /\ chars[Len(chars)] = "-" THEN Len(chars) - 1 ELSE Len(chars))

\* normalized || "task"
OrTask(normalized) == IF normalized = <<>> THEN <<"t", "a", "s", "k">> ELSE normalized

\* rawId is a sequence of characters
sanitizeContainerId(rawId) ==
    OrTask(StripHyphens(Hyphenate([i \in 1..Len(Trim(rawId)) |-> LowerChar(Trim(rawId)[i])])))

\* frontmatter.title.replace(/"/g, '\\"')
EscapeQuotes(title) == [i \in 1..Len(title) |-> IF title[i] = "\"" THEN "\\\"" ELSE title[i]]

\* for (const scopePath of frontmatter.scope.paths) yamlLines.push(`    - "${scopePath}"`)
ScopeLines(scopePaths) ==
    [i \in 1..Len(scopePaths) |-> <<"    - \"", scopePaths[i], "\"">>]

\* metadata is [containerId, title, scopePaths]; createdAt, primaryModel and
\* backupModel are never supplied by the orchestrator
buildFrontmatter(metadata) ==
    Join(<< FRONTMATTER_DELIMITER,
            <<"container_id: ">> \o sanitizeContainerId(metadata.containerId),
            <<"title: \"">> \o EscapeQuotes(metadata.title) \o <<"\"">>,
            <<"created_at: \"", TS, "\"">>,
            <<"version: 1">>,
            <<"status: \"active\"">>,
            <<"scope:">>,
            <<"  paths:">> >>
         \o ScopeLines(IF Len(metadata.scopePaths) > 0 THEN metadata.scopePaths ELSE <<".">>)
         \o << <<"  tests: []">>,
               <<"models:">>,
               <<"  primary: \"gpt-5.1-thinking\"">>,
               <<"  backup: \"gpt-4.1\"">>,
               FRONTMATTER_DELIMITER >>)

\* initialTask?.trim() ?? "Pending user intent"
Description(initialTask) ==
    IF initialTask.present THEN Trim(initialTask.text)
    ELSE <<"Pending", SP, "user", SP, "intent">>

buildInitialTemplate(metadata, initialTask) ==
    Join(<< buildFrontmatter(metadata),
            <<>>,
            SECTION_HEADINGS.taskClaim,
            <<"-", SP, "User intent", ":", SP>> \o Description(initialTask),
            <<"-", SP, "Task claim", ":", SP, "Pending", SP, "determinacy mapping.">>,
            <<>>,
            SECTION_HEADINGS.mappingLayer,
            <<"-", SP, "Entities", ":", SP, "_">>,
            <<"-", SP, "Attributes", ":", SP, "_">>,
            <<"-", SP, "Relations", ":", SP, "_">>,
            <<"-", SP, "Constraints", ":", SP, "_">>,
            <<>>,
            SECTION_HEADINGS.mechanics,
            <<"-", SP, "Invariants", ":", SP, "_">>,
            <<>>,
            SECTION_HEADINGS.mappingTable,
            <<"| ID | Concept | File:Line(s) | Kind | Status |">>,
            <<"| -- | -------- | ------------- | ---- | ------ |">>,
            <<"| M1 | ", "pending", " | ", "pending", " | ", "pending", " | unknown |">>,
            <<>>,
            SECTION_HEADINGS.plan,
            <<"-", SP, "[ ]", SP, "Pending", SP, "plan", SP, "items">>,
            <<>>,
            SECTION_HEADINGS.implementation,
            <<"-", SP, "No implementation actions recorded yet.">>,
            <<>>,
            SECTION_HEADINGS.openQuestions,
            <<"-", SP, "None recorded.">>,
            <<>> >>)

\* ------------------------------------------------------------------------
\* SasOrchestrator: section store
\* ------------------------------------------------------------------------

\* const sectionStart = content.indexOf("\n", headingIndex + sectionHeading.length)
\* const bodyStart = sectionStart === -1 ? headingIndex + sectionHeading.length : sectionStart + 1
bodyStart(content, from) ==
    LET sectionStart == IndexOf(content, <<NL>>, from)
    IN IF sectionStart = 0 THEN from ELSE sectionStart + 1

\* const nextHeadingIndex = content.indexOf("\n## ", headingIndex + sectionHeading.length)
\* const bodyEnd = nextHeadingIndex === -1 ? content.length : nextHeadingIndex
bodyEnd(content, from) ==
    LET nextHeadingIndex == IndexOf(content, <<NL, HP>>, from)
    IN IF nextHeadingIndex = 0 THEN Len(content) + 1 ELSE nextHeadingIndex

\* `${before}${newBody}\n\n${after.trimStart()}` with the entry appended to the body
AppendedBody(content, start, end, entry) ==
    LET existingBody == TrimEnd(SubSeq(content, start, end - 1))
    IN SubSeq(content, 1, start - 1)
        \o (IF existingBody # <<>> THEN existingBody \o <<NL>> \o entry ELSE entry)
        \o <<NL, NL>> \o TrimStart(SubSeq(content, end, Len(content)))

\* `${before}${newBody.trim()}\n\n${after.trimStart()}`
ReplacedBody(content, start, end, newBody) ==
    SubSeq(content, 1, start - 1) \o Trim(newBody) \o <<NL, NL>>
        \o TrimStart(SubSeq(content, end, Len(content)))

\* the missing section put in front of the document
NewSection_InFront(content, sectionHeading, body) ==
    sectionHeading \o <<NL>> \o body \o <<NL, NL>> \o content

\* the section is missing: it is added at the end of the document
NewSection(content, sectionHeading, body) ==
    TrimEnd(content) \o <<NL, NL>> \o sectionHeading \o <<NL>> \o body \o <<NL>>

appendToSection(content, sectionHeading, entry) ==
    LET headingIndex == IndexOf(content, sectionHeading, 1)
    IN IF headingIndex = 0
       THEN NewSection(content, sectionHeading, entry)
       ELSE AppendedBody(content,
                         bodyStart(content, headingIndex + Len(sectionHeading)),
                         bodyEnd(content, headingIndex + Len(sectionHeading)),
                         entry)

replaceSectionBody(content, sectionHeading, newBody) ==
    LET headingIndex == IndexOf(content, sectionHeading, 1)
    IN IF headingIndex = 0
       THEN NewSection(content, sectionHeading, Trim(newBody))
       ELSE ReplacedBody(content,
                         bodyStart(content, headingIndex + Len(sectionHeading)),
                         bodyEnd(content, headingIndex + Len(sectionHeading)),
                         newBody)

\* content.slice(headingIndex, nextHeadingIndex === -1 ? undefined : nextHeadingIndex)
SliceFrom(content, headingIndex, from) ==
    SubSeq(content, headingIndex, bodyEnd(content, from) - 1)

\* the lines a reader parses, from the heading line to the next "\n## " (or the
\* end); <<>> when the heading is not found
LinesFrom(content, sectionHeading, headingIndex) ==
    IF headingIndex = 0 THEN <<>>
    ELSE Split(SliceFrom(content, headingIndex, headingIndex + Len(sectionHeading)))

SectionLines(content, sectionHeading) ==
    LinesFrom(content, sectionHeading, IndexOf(content, sectionHeading, 1))

\* the text of the section, heading line included
SectionSlice(content, sectionHeading) == Join(SectionLines(content, sectionHeading))

\* ------------------------------------------------------------------------
\* SasOrchestrator: list codecs
\* ------------------------------------------------------------------------

PlanId(n) == [k |-> "S", n |-> n]

InvId(n) == [k |-> "I", n |-> n]

NoId == [k |-> "none", n |-> 0]

PLACEHOLDER_SUFFIX == <<":", SP, "_">>

PENDING == <<"pending">>

\* line && !line.includes("pending") && !line.endsWith(": _")
Meaningful(line) ==
    /\ line # <<>>
    /\ ~Includes(line, PENDING)
    /\ ~EndsWith(line, PLACEHOLDER_SUFFIX)

AnyMeaningful(lines) == \E i \in 1..Len(lines) : Meaningful(Trim(lines[i]))

hasMappingLayer(content) == AnyMeaningful(SectionLines(content, SECTION_HEADINGS.mappingLayer))

\* /^- \[( |x)\]\s*(.+)$/i on a trimmed line
PlanMatch(trimmed) ==
    /\ Len(trimmed) >= 4
    /\ trimmed[1] = "-"
    /\ trimmed[2] = SP
    /\ LowerTok(trimmed[3]) \in {"[ ]", "[x]"}

\* one line of the plan section; index is the line's index in the slice
ParsePlanLine(trimmed, index) ==
    [match  |-> PlanMatch(trimmed),
     id     |-> PlanId(index),
     text   |-> IF PlanMatch(trimmed)
                THEN TrimStart(SubSeq(trimmed, 4, Len(trimmed)))
                ELSE <<>>,
     status |-> IF PlanMatch(trimmed) /\ LowerTok(trimmed[3]) = "[x]"
                THEN "done" ELSE "todo"]

Matched(r) == r.match

PlanItemsOf(parsed) ==
    [i \in 1..Len(parsed) |->
        [id |-> parsed[i].id, text |-> parsed[i].text, status |-> parsed[i].status]]

ParsePlanLines(lines) ==
    PlanItemsOf(SelectSeq([i \in 1..Len(lines) |-> ParsePlanLine(Trim(lines[i]), i)],
                          Matched))

readPlanItems(content) == ParsePlanLines(SectionLines(content, SECTION_HEADINGS.plan))

StatusOfTok(t) ==
    CASE LowerTok(t) = "[satisfied]" -> "satisfied"
      [] LowerTok(t) = "[violated]" -> "violated"
      [] OTHER -> "unknown"

TokOfStatus(status) ==
    CASE status = "satisfied" -> "[satisfied]"
      [] status = "violated" -> "[violated]"
      [] OTHER -> "[unknown]"

\* /^- \[(satisfied|violated|unknown)\]\s*(.+)$/i on a trimmed line
InvariantMatch(trimmed) ==
    /\ Len(trimmed) >= 4
    /\ trimmed[1] = "-"
    /\ trimmed[2] = SP
    /\ LowerTok(trimmed[3]) \in {"[satisfied]", "[violated]", "[unknown]"}

\* trimmed.replace(/^-\s*/, "")
StripDash(trimmed) ==
    IF Len(trimmed) > 0 /\ trimmed[1] = "-" THEN TrimStart(Tail(trimmed)) ELSE trimmed

\* the line is blank or a heading
Skipped(trimmed) == trimmed = <<>> \/ trimmed[1] = HP

\* placeholder lines count as invariants too
Fallback_KeepsPlaceholders(trimmed) ==
    /\ ~Skipped(trimmed)
    /\ ~InvariantMatch(trimmed)

\* a line without a status tag that still counts as an invariant
Fallback(trimmed) ==
    /\ ~Skipped(trimmed)
    /\ ~InvariantMatch(trimmed)
    /\ ~EndsWith(trimmed, PLACEHOLDER_SUFFIX)
    /\ ~Includes(trimmed, PENDING)

\* one line of the invariants section; index is the line's index in the slice
ParseInvariantLine(trimmed, index) ==
    IF ~Skipped(trimmed) /\ InvariantMatch(trimmed)
    THEN [match       |-> TRUE,
          id          |-> InvId(index),
          description |-> TrimStart(SubSeq(trimmed, 4, Len(trimmed))),
          status      |-> StatusOfTok(trimmed[3])]
    ELSE [match       |-> Fallback(trimmed),
          id          |-> InvId(index),
          description |-> IF Fallback(trimmed) THEN StripDash(trimmed) ELSE <<>>,
          status      |-> "unknown"]

InvariantsOf(parsed) ==
    [i \in 1..Len(parsed) |->
        [id |-> parsed[i].id, description |-> parsed[i].description,
         status |-> parsed[i].status]]

ParseInvariantLines(lines) ==
    InvariantsOf(SelectSeq([i \in 1..Len(lines) |-> ParseInvariantLine(Trim(lines[i]), i)],
                           Matched))

readInvariants(content) ==
    ParseInvariantLines(SectionLines(content, SECTION_HEADINGS.mechanics))

writeInvariants(content, invariants) ==
    IF Len(invariants) = 0
    THEN replaceSectionBody(content, SECTION_HEADINGS.mechanics,
                            <<"-", SP, "Invariants", ":", SP, "_">>)
    ELSE replaceSectionBody(content, SECTION_HEADINGS.mechanics,
            Join([i \in 1..Len(invariants) |->
                    <<"-", SP, TokOfStatus(invariants[i].status), SP>>
                        \o invariants[i].description]))

writePlanItemsFromList(content, items) ==
    IF Len(items) = 0
    THEN replaceSectionBody(content, SECTION_HEADINGS.plan,
                            <<"-", SP, "[ ]", SP, "Pending", SP, "plan", SP, "items">>)
    ELSE replaceSectionBody(content, SECTION_HEADINGS.plan,
            Join([i \in 1..Len(items) |->
                    <<"-", SP, (IF items[i].status = "done" THEN "[x]" ELSE "[ ]"), SP>>
                        \o items[i].text]))

\* the tokens of the shape "[...]"
BRACKETED ==
    {"[ ]", "[x]", "[X]", "[satisfied]", "[violated]", "[unknown]", "[SATISFIED]",
     "[Violated]", "[Unknown]", "[A1 Instantiator]", "[A2 Planner]",
     "[Loop A1 Instantiator]", "[Loop A2 Planner]", "[Loop A3 Implementer]"}

\* a bullet with its leading "-" and whitespace removed, <<>> when it has no "-"
AfterDash(b) == IF Len(b) > 0 /\ b[1] = "-" THEN TrimStart(Tail(b)) ELSE <<>>

\* a bullet's text after its "[...]" tag, the whole bullet when it has no tag
AfterTag(bullet, rest) ==
    IF Len(rest) > 0 /\ rest[1] \in BRACKETED THEN TrimStart(Tail(rest)) ELSE bullet

\* `- [ ] ${line}`.replace(/^\s*-\s*\[[^\]]*\]\s*/, "")
StripBullet(bullet) == AfterTag(bullet, AfterDash(TrimStart(bullet)))

NonEmpty(line) == line # <<>>

\* planText.split("\n").map(line => line.trim()).filter(Boolean)
TrimmedPlanLines(split) == SelectSeq([i \in 1..Len(split) |-> Trim(split[i])], NonEmpty)

\* lines.map(line => `- [ ] ${line}`)
Bullets(lines) == [i \in 1..Len(lines) |-> <<"-", SP, "[ ]", SP>> \o lines[i]]

\* bullets.length > 0 ? bullets.join("\n") : `- [ ] ${planText.trim()}`
PlanBody(bullets, text) ==
    IF Len(bullets) > 0 THEN Join(bullets) ELSE <<"-", SP, "[ ]", SP>> \o Trim(text)

\* bullets.map((bullet, index) => ({ id: `I${index + 1}`, description: ..., status: "unknown" }))
seedInvariants(bullets) ==
    [i \in 1..Len(bullets) |->
        [id |-> InvId(i),
         description |-> <<"Plan", SP, "alignment", ":", SP>> \o StripBullet(bullets[i]),
         status |-> "unknown"]]

\* if (invariants.length === 0 && bullets.length > 0) writeInvariants(seedInvariants)
SeedIfEmpty(replaced, bullets) ==
    IF Len(readInvariants(replaced)) = 0 /\ Len(bullets) > 0
    THEN writeInvariants(replaced, seedInvariants(bullets))
    ELSE replaced

WriteBullets(content, bullets, text) ==
    SeedIfEmpty(replaceSectionBody(content, SECTION_HEADINGS.plan, PlanBody(bullets, text)),
                bullets)

\* planText is [present |-> BOOLEAN, text |-> tokens]; !planText holds for
\* undefined and for the empty string
writePlanItems(content, planText) ==
    IF ~planText.present \/ planText.text = <<>>
    THEN appendToSection(content, SECTION_HEADINGS.plan,
            <<"-", SP, "[A2 Planner]", SP, "@", SP, TS, ":", SP, "(no plan text provided)">>)
    ELSE WriteBullets(content, Bullets(TrimmedPlanLines(Split(planText.text))), planText.text)

\* ------------------------------------------------------------------------
\* SasOrchestrator: determinacy evaluator
\* ------------------------------------------------------------------------

IsSatisfied(inv) == inv.status = "satisfied"

IsKnown(inv) == inv.status # "unknown"

IsTodo(item) == item.status = "todo"

\* Math.max(0, Math.min(1, satisfied / total)) as the fraction num / den
Clamp01(satisfied, total) ==
    IF satisfied > total THEN [num |-> 1, den |-> 1]
    ELSE IF satisfied < 0 THEN [num |-> 0, den |-> 1]
    ELSE [num |-> satisfied, den |-> total]

\* Math.max(0, Math.min(1, satisfied / (invariants.length || 1)))
Determinacy(invariants) ==
    Clamp01(Len(SelectSeq(invariants, IsSatisfied)),
            IF Len(invariants) # 0 THEN Len(invariants) ELSE 1)

\* the "no invariant judged yet" escape is missing
Ready_ThresholdOnly(plan, determinacy, hasKnownInvariant) ==
    Len(SelectSeq(plan, IsTodo)) > 0 /\ 2 * determinacy.num >= determinacy.den

\* plan.some(item => item.status === "todo") && (determinacy >= 0.5 || !hasKnownInvariant)
Ready(plan, determinacy, hasKnownInvariant) ==
    /\ Len(SelectSeq(plan, IsTodo)) > 0
    /\ (2 * determinacy.num >= determinacy.den \/ ~hasKnownInvariant)

\* satisfied / invariants.length, without the "|| 1" and without the clamp
Evaluate_NoFallbackTotal(invariants, plan, mappingReady) ==
    [determinacy |-> [num |-> Len(SelectSeq(invariants, IsSatisfied)),
                      den |-> Len(invariants)],
     invariants |-> invariants,
     plan |-> plan,
     readyForPlanning |-> mappingReady /\ Len(invariants) > 0,
     readyForImplementation |->
        Ready(plan,
              [num |-> Len(SelectSeq(invariants, IsSatisfied)), den |-> Len(invariants)],
              Len(SelectSeq(invariants, IsKnown)) > 0)]

Evaluate(invariants, plan, mappingReady) ==
    [determinacy |-> Determinacy(invariants),
     invariants |-> invariants,
     plan |-> plan,
     readyForPlanning |-> mappingReady /\ Len(invariants) > 0,
     readyForImplementation |->
        Ready(plan, Determinacy(invariants), Len(SelectSeq(invariants, IsKnown)) > 0)]

getDeterminacyState(content) ==
    Evaluate(readInvariants(content), readPlanItems(content), hasMappingLayer(content))

REASON_PHASE == "SAS is not in implementer phase; plan steps must be approved first."

REASON_READINESS == "Determinacy too low or no open plan items to execute."

REASON_NO_MATCH == "Tool request is not mapped to any open plan step."

NO_REASON == ""

Deny(reason) == [allowed |-> FALSE, reason |-> reason, planItemId |-> NoId]

\* plan.find(item => item.status === "todo" && item.text.toLowerCase().includes(normalizedTool))
\* the status test is missing
Matches_AnyStatus(item, normalizedTool) ==
    Includes(ToLowerCase(item.text), normalizedTool)

Matches(item, normalizedTool) ==
    /\ item.status = "todo"
    /\ Includes(ToLowerCase(item.text), normalizedTool)

\* the indexes of the plan items the tool request matches
Hits(plan, normalizedTool) == {i \in 1..Len(plan) : Matches(plan[i], normalizedTool)}

\* the last matching item is taken instead of the first
Found_LastMatch(plan, hits) ==
    IF hits = {} THEN Deny(REASON_NO_MATCH)
    ELSE [allowed |-> TRUE, reason |-> NO_REASON, planItemId |-> plan[Max(hits)].id]

\* const matchingItem = plan.find(...); if (!matchingItem) deny, else allow with its id
Found(plan, hits) ==
    IF hits = {} THEN Deny(REASON_NO_MATCH)
    ELSE [allowed |-> TRUE, reason |-> NO_REASON, planItemId |-> plan[Min(hits)].id]

\* an undefined phase passes the phase test
Decide_UnsetPasses(state, currentPhase, normalizedTool) ==
    IF currentPhase \in {"instantiator", "planner"} THEN Deny(REASON_PHASE)
    ELSE IF ~state.readyForImplementation THEN Deny(REASON_READINESS)
    ELSE Found(state.plan, Hits(state.plan, normalizedTool))

\* the readiness test comes before the phase test
Decide_ReadinessFirst(state, currentPhase, normalizedTool) ==
    IF ~state.readyForImplementation THEN Deny(REASON_READINESS)
    ELSE IF currentPhase # "implementer" THEN Deny(REASON_PHASE)
    ELSE Found(state.plan, Hits(state.plan, normalizedTool))

Decide(state, currentPhase, normalizedTool) ==
    IF currentPhase # "implementer" THEN Deny(REASON_PHASE)
    ELSE IF ~state.readyForImplementation THEN Deny(REASON_READINESS)
    ELSE Found(state.plan, Hits(state.plan, normalizedTool))

validatePlannedToolExecution(content, currentPhase, toolName) ==
    Decide(getDeterminacyState(content), currentPhase, ToLowerCase(toolName))

\* getDeterminacyState when fs.readFile throws in the readers named by failed:
\* each reader catches, logs and returns its default ([] or false)
getDeterminacyStateFailing(content, failed) ==
    Evaluate(IF failed.invariants THEN <<>> ELSE readInvariants(content),
             IF failed.plan THEN <<>> ELSE readPlanItems(content),
             ~failed.mapping /\ hasMappingLayer(content))

\* validatePlannedToolExecution over such a getDeterminacyState
validateFailing(content, failed, currentPhase, toolName) ==
    Decide(getDeterminacyStateFailing(content, failed), currentPhase, ToLowerCase(toolName))

\* ------------------------------------------------------------------------
\* SasOrchestrator: phase tracker and recording operations, as functions of
\* the engine state [content, phase]
\* ------------------------------------------------------------------------

UNSET == "unset"

SasAgentPhase == {"instantiator", "planner", "implementer"}

DASH == "<em dash>"

LoopTok(phase) ==
    CASE phase = "instantiator" -> "[Loop A1 Instantiator]"
      [] phase = "planner" -> "[Loop A2 Planner]"
      [] OTHER -> "[Loop A3 Implementer]"

\* reason <<>> stands for an absent (or empty) reason
setPhase_SkipsSamePhase(st, phase, reason) ==
    LET entryReason == IF reason # <<>> THEN <<SP, DASH, SP>> \o reason ELSE <<>>
        entry == <<"-", SP, LoopTok(phase), SP, TS>> \o entryReason
    IN IF st.phase = phase THEN st
       ELSE [content |-> appendToSection(st.content, SECTION_HEADINGS.taskClaim, entry),
             phase |-> phase]

setPhase(st, phase, reason) ==
    LET entryReason == IF reason # <<>> THEN <<SP, DASH, SP>> \o reason ELSE <<>>
        entry == <<"-", SP, LoopTok(phase), SP, TS>> \o entryReason
    IN IF st.phase = phase /\ reason = <<>> THEN st
       ELSE [content |-> appendToSection(st.content, SECTION_HEADINGS.taskClaim, entry),
             phase |-> phase]

NoAttachments == [files |-> <<>>, images |-> <<>>]

\* names.join(", ")
RECURSIVE JoinComma(_)
JoinComma(names) ==
    IF Len(names) = 0 THEN <<>>
    ELSE IF Len(names) = 1 THEN <<names[1]>>
    ELSE <<names[1], ",", SP>> \o JoinComma(Tail(names))

formatAttachments(attachments) ==
    LET fileSegment == IF Len(attachments.files) > 0
                       THEN <<SP, "|", SP, "files", ":", SP>> \o JoinComma(attachments.files)
                       ELSE <<>>
        imageSegment == IF Len(attachments.images) > 0
                        THEN <<SP, "|", SP, "images", ":", SP>> \o JoinComma(attachments.images)
                        ELSE <<>>
    IN fileSegment \o imageSegment

\* the entry is appended to the section after the phase change is logged
AppendIn(st1, sectionHeading, entry) ==
    [content |-> appendToSection(st1.content, sectionHeading, entry), phase |-> st1.phase]

recordUserIntent(st, intent, attachments) ==
    AppendIn(setPhase(st, "instantiator", <<"Captured user intent">>),
             SECTION_HEADINGS.taskClaim,
             <<"-", SP, "[A1 Instantiator]", SP, "@", SP, TS, ":", SP>>
                \o (IF intent # <<>> THEN intent ELSE <<"(no task text)">>)
                \o formatAttachments(attachments))

WritePlanIn(st1, planText) ==
    [content |-> writePlanItems(st1.content, planText), phase |-> st1.phase]

recordPlanUpdate_NoReason(st, planText) ==
    WritePlanIn(setPhase(st, "planner", <<>>), planText)

recordPlanUpdate(st, planText) ==
    WritePlanIn(setPhase(st, "planner", <<"Planner produced an update">>), planText)

recordImplementationUpdate(st, kind, text) ==
    AppendIn(setPhase(st, "implementer", <<"Implementer acted on plan">>),
             SECTION_HEADINGS.implementation,
             <<"-", SP, "[A3 Implementer:", kind, "]", SP, "@", SP, TS, ":", SP>>
                \o (IF text # <<>> THEN text ELSE <<"(no details provided)">>))

recordOpenQuestion(st, note) ==
    AppendIn(setPhase(st, "instantiator", <<"Raised an open question">>),
             SECTION_HEADINGS.openQuestions,
             <<"-", SP, TS, ":", SP>> \o note)

\* the kinds recordSayEvent records
PlanTypes == {"reasoning", "generate_explanation", "task_progress"}

ErrorTypes == {"error", "clineignore_error"}

implementationTypes ==
    {"command", "command_output", "tool", "checkpoint_created", "user_feedback_diff",
     "hook_output", "api_req_finished", "api_req_started", "completion_result"}

\* text ?? fallback
OrElse(text, fallback) == IF text.present THEN text.text ELSE fallback

\* text || "..." inside the callee: undefined is the empty string there
OrEmpty(text) == IF text.present THEN text.text ELSE <<>>

\* TRUE iff recordSayEvent goes past its early returns and calls a recorder
\* (each of them starts with ensureInitialized)
Records_IgnoresPartial(event) ==
    event.type \in {"task"} \cup PlanTypes \cup ErrorTypes \cup implementationTypes

Records(event) ==
    /\ ~event.partial
    /\ event.type \in {"task"} \cup PlanTypes \cup ErrorTypes \cup implementationTypes

recordSayEvent_ErrorsAsNotes(st, event) ==
    IF event.type = "task"
    THEN recordUserIntent(st, OrElse(event.text, <<"(no task text provided)">>), NoAttachments)
    ELSE IF event.type \in PlanTypes
    THEN recordPlanUpdate(st, event.text)
    ELSE recordImplementationUpdate(st, event.type, OrEmpty(event.text))

\* recordSayEvent past the partial check, for an event that Records
recordSayEvent(st, event) ==
    IF event.type = "task"
    THEN recordUserIntent(st, OrElse(event.text, <<"(no task text provided)">>), NoAttachments)
    ELSE IF event.type \in PlanTypes
    THEN recordPlanUpdate(st, event.text)
    ELSE IF event.type \in ErrorTypes
    THEN recordOpenQuestion(st, OrElse(event.text, <<"Error emitted by task">>))
    ELSE recordImplementationUpdate(st, event.type, OrEmpty(event.text))

\* `${planItemId}`
IdText(id) == <<id.k, ToString(id.n)>>

\* invariants.findIndex(inv => inv.status === "unknown"), 0 for -1
FirstUnknown(invariants) ==
    LET unknown == {i \in 1..Len(invariants) : invariants[i].status = "unknown"}
    IN IF unknown = {} THEN 0 ELSE Min(unknown)

\* planItems.map(item => item.id === planItemId ? { ...item, status: "done" } : item)
MarkDone(planItems, planItemId) ==
    [i \in 1..Len(planItems) |->
        IF planItems[i].id = planItemId
        THEN [planItems[i] EXCEPT !.status = "done"]
        ELSE planItems[i]]

\* if (invariants.length > 0 && nextUnknownIndex !== -1) the invariant is satisfied
SatisfyAt(content, invariants, nextUnknownIndex) ==
    IF Len(invariants) > 0 /\ nextUnknownIndex # 0
    THEN writeInvariants(content, [invariants EXCEPT ![nextUnknownIndex].status = "satisfied"])
    ELSE content

SatisfyNext(content, invariants) == SatisfyAt(content, invariants, FirstUnknown(invariants))

SatisfyIn(content) == SatisfyNext(content, readInvariants(content))

\* note ? `${planItemId}: ${note}` : `Completed plan step ${planItemId}`
Summary(planItemId, note) ==
    IF note # <<>> THEN IdText(planItemId) \o <<":", SP>> \o note
    ELSE <<"Completed plan step", SP>> \o IdText(planItemId)

\* the step is completed only in the implementer phase
markPlanStepComplete_Gated(st, planItemId, note) ==
    IF st.phase # "implementer" THEN st
    ELSE recordImplementationUpdate(
            [content |-> SatisfyIn(writePlanItemsFromList(
                                       st.content, MarkDone(readPlanItems(st.content), planItemId))),
             phase |-> st.phase],
            "plan_step", Summary(planItemId, note))

markPlanStepComplete(st, planItemId, note) ==
    recordImplementationUpdate(
        [content |-> SatisfyIn(writePlanItemsFromList(
                                   st.content, MarkDone(readPlanItems(st.content), planItemId))),
         phase |-> st.phase],
        "plan_step", Summary(planItemId, note))

\* ------------------------------------------------------------------------
\* Inputs
\* ------------------------------------------------------------------------

Absent == [present |-> FALSE, text |-> <<>>]

Text(t) == [present |-> TRUE, text |-> t]

\* recordUserIntent(intent, attachments): a plain task text with attachments,
\* and a task text that quotes a section heading
IntentInputs ==
    { [intent |-> <<"fix", SP, "lint">>,
       attachments |-> [files |-> <<"a.ts", "b.ts">>, images |-> <<"c.png">>]],
      [intent |-> <<"fix", SP>> \o SECTION_HEADINGS.mechanics,
       attachments |-> NoAttachments] }

\* recordPlanUpdate(planText): absent, two steps, untrimmed lines with a blank
\* line between them, white space only, and a step that quotes a heading
PlanTexts ==
    { Absent,
      Text(<<"run", SP, "lint", NL, "deploy">>),
      Text(<<SP, "Deploy", SP, NL, NL, "lint", SP, "deploy">>),
      Text(<<SP>>),
      Text(<<"see", SP>> \o SECTION_HEADINGS.plan) }

\* recordImplementationUpdate(kind, text)
ImplementationInputs ==
    { [kind |-> "command", text |-> <<"npm", SP, "run", SP, "lint">>] }

\* recordOpenQuestion(note)
QuestionNotes == { <<"why">> }

\* setPhase(phase, reason)
PhaseInputs ==
    { [phase |-> "instantiator", reason |-> <<>>],
      [phase |-> "planner", reason |-> <<>>],
      [phase |-> "implementer", reason |-> <<>>],
      [phase |-> "implementer", reason |-> <<"manual">>] }

\* markPlanStepComplete(planItemId, note)
StepInputs ==
    { [planItemId |-> PlanId(2), note |-> <<>>],
      [planItemId |-> PlanId(3), note |-> <<"ok">>],
      [planItemId |-> PlanId(7), note |-> <<>>] }

\* validatePlannedToolExecution(toolName)
ToolNames == { <<"LINT">>, <<"deploy">>, <<"build">> }

\* SasOrchestratorParams: containerId is a sequence of characters, title a
\* text, initialTask an optional text, scopePaths a list of paths
DefaultParams ==
    [containerId |-> <<"t", "a", "s", "k">>,
     title |-> <<"Task">>,
     initialTask |-> Absent,
     scopePaths |-> <<>>]

\* const metadata = { containerId, title, scopePaths }
Metadata(p) == [containerId |-> p.containerId, title |-> p.title, scopePaths |-> p.scopePaths]

\* the document a first ensureSpecFile writes for the parameters p
Template(p) == buildInitialTemplate(Metadata(p), p.initialTask)

\* appendToSection(sectionHeading, entry) and replaceSectionBody(sectionHeading,
\* newBody): the sections written
WrittenSections ==
    {SECTION_HEADINGS.taskClaim, SECTION_HEADINGS.mechanics, SECTION_HEADINGS.openQuestions}

\* a one-line entry, an entry of two lines whose second line starts with "## ",
\* and an entry that quotes the heading of the Mechanics section
SectionEntries ==
    { <<"-", SP, "x">>,
      <<"-", SP, "a", NL, HP, "b">>,
      <<"-", SP, "see", SP>> \o SECTION_HEADINGS.mechanics }

SectionBodies ==
    { <<"-", SP, "y">>,
      <<"-", SP, "[unknown]", SP, "z", NL, "-", SP, "[satisfied]", SP, "w">> }

\* recordSayEvent(event): every recorded kind with and without text, a task
\* with empty text, partial events and kinds that are not recorded
SayEvents ==
    { [type |-> t, text |-> x, partial |-> FALSE] :
          t \in {"task"} \cup PlanTypes \cup ErrorTypes \cup implementationTypes,
          x \in {Absent, Text(<<"run", SP, "lint">>)} }
    \cup { [type |-> "task", text |-> Text(<<>>), partial |-> FALSE] }
    \cup { [type |-> t, text |-> Text(<<"run", SP, "lint">>), partial |-> TRUE] :
              t \in {"task", "reasoning", "error", "command", "text"} }
    \cup { [type |-> t, text |-> x, partial |-> FALSE] :
              t \in {"text", "api_req_retried"},
              x \in {Absent, Text(<<"run", SP, "lint">>)} }

\* which of the three reads of a getDeterminacyState fail
ReadFailures == [invariants : BOOLEAN, plan : BOOLEAN, mapping : BOOLEAN]

\* raw container ids: every string of up to MaxIdLen characters over a lower
\* and an upper case letter, a digit, a space, a symbol and a hyphen, and the
\* title "Auth Tokens!!"
IdChars == {"a", "T", "0", " ", "!", "-"}

RawIds ==
    UNION {[1..n -> IdChars] : n \in 0..MaxIdLen}
        \cup {<<"A", "u", "t", "h", " ", "T", "o", "k", "e", "n", "s", "!", "!">>}

\* lines of a Mechanics body edited by hand: tagged lines in several letter
\* cases (one holding "pending"), the placeholder, a line holding "pending",
\* untagged lines with and without bullet, a blank line, a tag without
\* description and a line holding "Pending"
MechanicsLines ==
    { <<"-", SP, "[SATISFIED]", SP, "a">>,
      <<"-", SP, "[Violated]", SP, "pending", SP, "b">>,
      <<"-", SP, "[unknown]", SP, "c">>,
      <<"-", SP, "Invariants", ":", SP, "_">>,
      <<"-", SP, "review", SP, "pending">>,
      <<"-", SP, "must hold">>,
      <<SP, "note", SP>>,
      <<>>,
      <<"-", SP, "[satisfied]">>,
      <<"-", SP, "Pending", SP, "x">> }

MechanicsBodies == UNION {[1..n -> MechanicsLines] : n \in 0..MaxBodyLines}

\* lists given to writeInvariants and writePlanItemsFromList
InvariantLists ==
    UNION {[1..n -> [id : {NoId}, status : {"satisfied", "violated", "unknown"},
                     description : {<<"a">>, <<"pending", SP, "b">>}]] :
           n \in 0..MaxBodyLines}

PlanLists ==
    UNION {[1..n -> [id : {NoId}, status : {"todo", "done"},
                     text : {<<"lint">>, <<"run", SP, "lint">>}]] :
           n \in 0..MaxBodyLines}

\* two section writes invoked without awaiting one another
Callers == {1, 2}

\* the entry or body a caller writes
CallEntry(c) == <<"-", SP, "call", SP, ToString(c)>>

IdleCall == [pc |-> "idle", op |-> "none", section |-> <<>>, text |-> <<>>, content |-> <<>>]

\* parameters of engines constructed for the one container: the raw ids all
\* sanitize to "task", title, scope and initial task differ
EngineParams ==
    { DefaultParams,
      [containerId |-> <<" ", "T", "a", "s", "k", "!">>,
       title |-> <<"Ship", SP, "it">>,
       initialTask |-> Text(<<SP, "ship", SP, "lint", SP>>),
       scopePaths |-> <<"src", "docs">>],
      [containerId |-> <<"?", "!">>,
       title |-> <<"say", SP, "\"", "hi", "\"">>,
       initialTask |-> Text(<<>>),
       scopePaths |-> <<>>] }

\* Documents left at the container's path by an earlier session and edited by
\* hand since (ensureSpecFile leaves an existing file untouched).
EditedDocument(mechanics, plan, mappingLayer) ==
    replaceSectionBody(
        replaceSectionBody(
            replaceSectionBody(Template(DefaultParams), SECTION_HEADINGS.mechanics, mechanics),
            SECTION_HEADINGS.plan, plan),
        SECTION_HEADINGS.mappingLayer, mappingLayer)

PlaceholderMapping ==
    Join(<< <<"-", SP, "Entities", ":", SP, "_">>,
            <<"-", SP, "Attributes", ":", SP, "_">> >>)

FilledMapping ==
    Join(<< <<"-", SP, "Entities", ":", SP, "tokens">>,
            <<"-", SP, "Attributes", ":", SP, "_">> >>)

LintPlan ==
    Join(<< <<"-", SP, "[x]", SP, "lint">>,
            <<"-", SP, "[ ]", SP, "deploy">>,
            <<"-", SP, "[ ]", SP, "run", SP, "lint">>,
            <<"-", SP, "[ ]", SP, "lint", SP, "again">> >>)

ExistingDocuments ==
    { EditedDocument(Join(<< <<"-", SP, "[satisfied]", SP, "a">>,
                             <<"-", SP, "[violated]", SP, "b">>,
                             <<"-", SP, "[unknown]", SP, "c">> >>),
                     LintPlan, PlaceholderMapping),
      EditedDocument(Join(<< <<"-", SP, "[SATISFIED]", SP, "a">>,
                             <<"-", SP, "must hold", SP, "b">> >>),
                     LintPlan, FilledMapping),
      EditedDocument(Join(<< <<"-", SP, "[violated]", SP, "a">>,
                             <<"-", SP, "[unknown]", SP, "b">>,
                             <<"-", SP, "[unknown]", SP, "c">> >>),
                     <<"-", SP, "[X]", SP, "Deploy">>, PlaceholderMapping) }

\* ------------------------------------------------------------------------
\* State
\* ------------------------------------------------------------------------

VARIABLES
    fileExists,     \* a file is present at the container's path
    file,           \* its content
    specPath,       \* SasOrchestrator.specPath is set
    currentPhase,   \* SasOrchestrator.currentPhase, UNSET when undefined
    params,         \* the SasOrchestratorParams the engine was constructed with
    ops,            \* number of mutating operations so far
    last,           \* the last call: operation, arguments, state before it
    calls           \* section writes in flight: position and the content read

vars == <<fileExists, file, specPath, currentPhase, params, ops, last, calls>>

\* the template is written whether or not a file exists
ensureSpecFile_Overwrites(exists, content, metadata, initialTask) ==
    buildInitialTemplate(metadata, initialTask)

\* registry.ensureSpecFile: the template is written only when no file exists
ensureSpecFile(exists, content, metadata, initialTask) ==
    IF exists THEN content ELSE buildInitialTemplate(metadata, initialTask)

\* the engine state an operation works on once ensureInitialized has returned
Ensured ==
    [content |-> ensureSpecFile(fileExists, file, Metadata(params), params.initialTask),
     phase |-> currentPhase]

Call(op, text, id, phase) ==
    [op |-> op, text |-> text, id |-> id, phase |-> phase,
     pre |-> [exists |-> fileExists, content |-> file, phase |-> currentPhase]]

Commit(st, call) ==
    /\ fileExists' = TRUE
    /\ file' = st.content
    /\ specPath' = TRUE
    /\ currentPhase' = st.phase
    /\ params' = params
    /\ calls' = calls
    /\ last' = call

Init ==
    /\ \/ fileExists = FALSE /\ file = <<>>
       \/ fileExists = TRUE /\ file \in ExistingDocuments
    /\ specPath = FALSE
    /\ currentPhase = UNSET
    /\ params = DefaultParams
    /\ calls = [c \in Callers |-> IdleCall]
    /\ ops = 0
    /\ last = [op |-> "init", text |-> Absent, id |-> NoId, phase |-> UNSET,
               pre |-> [exists |-> fileExists, content |-> file, phase |-> UNSET]]

\* ------------------------------------------------------------------------
\* Operations
\* ------------------------------------------------------------------------

RecordUserIntent(bound) ==
    /\ ops < bound
    /\ \E in \in IntentInputs :
          Commit(recordUserIntent(Ensured, in.intent, in.attachments),
                 Call("recordUserIntent", Text(in.intent), NoId, UNSET))
    /\ ops' = ops + 1

RecordPlanUpdate(bound) ==
    /\ ops < bound
    /\ \E planText \in PlanTexts :
          Commit(recordPlanUpdate(Ensured, planText),
                 Call("recordPlanUpdate", planText, NoId, UNSET))
    /\ ops' = ops + 1

RecordImplementationUpdate(bound) ==
    /\ ops < bound
    /\ \E in \in ImplementationInputs :
          Commit(recordImplementationUpdate(Ensured, in.kind, in.text),
                 Call("recordImplementationUpdate", Text(in.text), NoId, UNSET))
    /\ ops' = ops + 1

RecordOpenQuestion(bound) ==
    /\ ops < bound
    /\ \E note \in QuestionNotes :
          Commit(recordOpenQuestion(Ensured, note),
                 Call("recordOpenQuestion", Text(note), NoId, UNSET))
    /\ ops' = ops + 1

SetPhase(bound) ==
    /\ ops < bound
    /\ \E in \in PhaseInputs :
          Commit(setPhase(Ensured, in.phase, in.reason),
                 Call("setPhase", Text(in.reason), NoId, in.phase))
    /\ ops' = ops + 1

MarkPlanStepComplete(bound) ==
    /\ ops < bound
    /\ \E in \in StepInputs :
          Commit(markPlanStepComplete(Ensured, in.planItemId, in.note),
                 Call("markPlanStepComplete", Text(in.note), in.planItemId, UNSET))
    /\ ops' = ops + 1

\* the two queries leave document and phase alone once the document exists;
\* what they return is GetDeterminacyStateResult / ValidateResult below
GetDeterminacyState ==
    /\ Commit(Ensured, Call("getDeterminacyState", Absent, NoId, UNSET))
    /\ UNCHANGED ops

ValidatePlannedToolExecution ==
    /\ \E toolName \in ToolNames :
          Commit(Ensured, Call("validatePlannedToolExecution", Text(toolName), NoId, UNSET))
    /\ UNCHANGED ops

Next ==
    \/ RecordUserIntent(MaxOps)
    \/ RecordPlanUpdate(MaxOps)
    \/ RecordImplementationUpdate(MaxOps)
    \/ RecordOpenQuestion(MaxOps)
    \/ SetPhase(MaxOps)
    \/ MarkPlanStepComplete(MaxOps)
    \/ GetDeterminacyState
    \/ ValidatePlannedToolExecution

Spec == Init /\ [][Next]_vars

\* texts handed to recordUserIntent, recordImplementationUpdate and
\* recordOpenQuestion: one line; two lines, the second starting with "## "; a
\* text that quotes the Plan State heading on a line of its own, followed by a
\* checklist line; a text that quotes the Mechanics heading
RecordedTexts ==
    { <<"fix", SP, "lint">>,
      <<"a", NL, HP, "b">>,
      <<"see", NL>> \o SECTION_HEADINGS.plan \o <<NL, "-", SP, "[ ]", SP, "deploy">>,
      <<"fix", SP>> \o SECTION_HEADINGS.mechanics }

\* a document left by an earlier session in which every plan step is done
\* and half of the invariants are satisfied
DoneDocument ==
    EditedDocument(Join(<< <<"-", SP, "[satisfied]", SP, "a">>,
                           <<"-", SP, "[unknown]", SP, "b">> >>),
                   Join(<< <<"-", SP, "[x]", SP, "lint">>,
                           <<"-", SP, "[X]", SP, "Deploy">> >>),
                   FilledMapping)

InitRecord ==
    /\ \/ fileExists = FALSE /\ file = <<>>
       \/ fileExists = TRUE /\ file \in ExistingDocuments \cup {DoneDocument}
    /\ specPath = FALSE
    /\ currentPhase = UNSET
    /\ params = DefaultParams
    /\ calls = [c \in Callers |-> IdleCall]
    /\ ops = 0
    /\ last = [op |-> "init", text |-> Absent, id |-> NoId, phase |-> UNSET,
               pre |-> [exists |-> fileExists, content |-> file, phase |-> UNSET]]

\* one of the three recorders, with one of the texts
RecordText ==
    /\ ops < MaxRecordOps
    /\ \E text \in RecordedTexts :
          \/ Commit(recordUserIntent(Ensured, text, NoAttachments),
                    Call("recordUserIntent", Text(text), NoId, UNSET))
          \/ Commit(recordImplementationUpdate(Ensured, "command", text),
                    Call("recordImplementationUpdate", Text(text), NoId, UNSET))
          \/ Commit(recordOpenQuestion(Ensured, text),
                    Call("recordOpenQuestion", Text(text), NoId, UNSET))
    /\ ops' = ops + 1

NextRecord ==
    \/ RecordText
    \/ MarkPlanStepComplete(MaxRecordOps)
    \/ GetDeterminacyState
    \/ ValidatePlannedToolExecution

SpecRecord == InitRecord /\ [][NextRecord]_vars

\* the planner and the step completion alone, one operation deeper
NextPlan ==
    \/ RecordPlanUpdate(MaxPlanOps)
    \/ MarkPlanStepComplete(MaxPlanOps)

SpecPlan == Init /\ [][NextPlan]_vars

\* new SasOrchestrator(params) for the same container: nothing is read or
\* written, the new instance has no path and no phase yet
\* the new instance starts in the phase of the one before
NewEngine_KeepsPhase(bound) ==
    /\ ops < bound
    /\ \E p \in EngineParams :
          /\ sanitizeContainerId(p.containerId) = sanitizeContainerId(params.containerId)
          /\ params' = p
    /\ specPath' = FALSE
    /\ currentPhase' = currentPhase
    /\ last' = Call("constructor", Absent, NoId, UNSET)
    /\ ops' = ops + 1
    /\ UNCHANGED <<fileExists, file, calls>>

\* ensureInitialized(): returns the cached path, or has the registry ensure
\* the file

NewEngine(bound) ==
    /\ ops < bound
    /\ \E p \in EngineParams :
          /\ sanitizeContainerId(p.containerId) = sanitizeContainerId(params.containerId)
          /\ params' = p
    /\ specPath' = FALSE
    /\ currentPhase' = UNSET
    /\ last' = Call("constructor", Absent, NoId, UNSET)
    /\ ops' = ops + 1
    /\ UNCHANGED <<fileExists, file, calls>>

\* ensureInitialized(): returns the cached path, or has the registry ensure
\* the file
EnsureInitialized ==
    /\ Commit(Ensured, Call("ensureInitialized", Absent, NoId, UNSET))
    /\ UNCHANGED ops

NextEnsure ==
    \/ NewEngine(MaxEnsureOps)
    \/ EnsureInitialized
    \/ RecordUserIntent(MaxEnsureOps)
    \/ RecordOpenQuestion(MaxEnsureOps)

SpecEnsure == Init /\ [][NextEnsure]_vars

\* getSpecInstructions(maxChars): ensureInitialized, then one read of the
\* file; the string it returns is built from that read and nothing is stored
GetSpecInstructions ==
    /\ Commit(Ensured, Call("getSpecInstructions", Absent, NoId, UNSET))
    /\ UNCHANGED ops

\* the document file is edited by hand: the engine holds no copy of it
ExternalEdit ==
    /\ ops < MaxQueryOps
    /\ \E document \in ExistingDocuments :
          /\ fileExists' = TRUE
          /\ file' = document
          /\ last' = Call("externalEdit", Absent, NoId, UNSET)
    /\ ops' = ops + 1
    /\ UNCHANGED <<specPath, currentPhase, params, calls>>

NextQuery ==
    \/ GetSpecInstructions
    \/ GetDeterminacyState
    \/ ValidatePlannedToolExecution
    \/ ExternalEdit
    \/ RecordPlanUpdate(MaxQueryOps)
    \/ MarkPlanStepComplete(MaxQueryOps)

SpecQuery == Init /\ [][NextQuery]_vars

\* appendToSection / replaceSectionBody from the content the call read
Transformed_Rereads(call) ==
    IF call.op = "appendToSection"
    THEN appendToSection(file, call.section, call.text)
    ELSE replaceSectionBody(file, call.section, call.text)

Transformed(call) ==
    IF call.op = "appendToSection"
    THEN appendToSection(call.content, call.section, call.text)
    ELSE replaceSectionBody(call.content, call.section, call.text)

RaceCall(op, c) ==
    [op |-> op, text |-> Absent, id |-> NoId, phase |-> UNSET, caller |-> c,
     pre |-> [exists |-> fileExists, content |-> file, phase |-> currentPhase]]

\* the call is made: this.specPath ?? (await this.ensureInitialized())
StartCall(c) ==
    /\ calls[c].pc = "idle"
    /\ \E op \in {"appendToSection", "replaceSectionBody"}, sectionHeading \in WrittenSections :
          calls' = [calls EXCEPT ![c] = [pc |-> "started", op |-> op,
                                         section |-> sectionHeading,
                                         text |-> CallEntry(c), content |-> <<>>]]
    /\ fileExists' = TRUE
    /\ file' = Ensured.content
    /\ specPath' = TRUE
    /\ last' = RaceCall("call", c)
    /\ UNCHANGED <<currentPhase, params, ops>>

\* const content = await fs.readFile(specPath, "utf8")
ReadFile(c) ==
    /\ calls[c].pc = "started"
    /\ calls' = [calls EXCEPT ![c].pc = "read", ![c].content = file]
    /\ last' = RaceCall("readFile", c)
    /\ UNCHANGED <<fileExists, file, specPath, currentPhase, params, ops>>

\* await fs.writeFile(specPath, updatedContent, "utf8")
WriteFile(c) ==
    /\ calls[c].pc = "read"
    /\ file' = Transformed(calls[c])
    /\ calls' = [calls EXCEPT ![c].pc = "done"]
    /\ last' = RaceCall("writeFile", c)
    /\ UNCHANGED <<fileExists, specPath, currentPhase, params, ops>>

NextRace ==
    \/ \E c \in Callers : StartCall(c)
    \/ \E c \in Callers : ReadFile(c)
    \/ \E c \in Callers : WriteFile(c)

SpecRace == Init /\ [][NextRace]_vars

\* a section write of caller c on first use, step by step: ensureInitialized
\* finds no cached path and ensureSpecFile awaits fileExistsAtPath(specPath)
FileExistsAtPath(c) ==
    /\ calls[c].pc = "idle"
    /\ \E op \in {"appendToSection", "replaceSectionBody"}, sectionHeading \in WrittenSections :
          calls' = [calls EXCEPT ![c] = [pc |-> IF fileExists THEN "started" ELSE "creating",
                                         op |-> op, section |-> sectionHeading,
                                         text |-> CallEntry(c), content |-> <<>>]]
    /\ last' = RaceCall("fileExistsAtPath", c)
    /\ UNCHANGED <<fileExists, file, specPath, currentPhase, params, ops>>

\* no file was seen: await fs.writeFile(specPath, buildInitialTemplate(...))
CreateFile(c) ==
    /\ calls[c].pc = "creating"
    /\ fileExists' = TRUE
    /\ file' = Template(params)
    /\ calls' = [calls EXCEPT ![c].pc = "started"]
    /\ last' = RaceCall("createFile", c)
    /\ UNCHANGED <<specPath, currentPhase, params, ops>>

NextFirstUse ==
    \/ \E c \in Callers : FileExistsAtPath(c)
    \/ \E c \in Callers : CreateFile(c)
    \/ \E c \in Callers : ReadFile(c)
    \/ \E c \in Callers : WriteFile(c)

SpecFirstUse == Init /\ [][NextFirstUse]_vars

\* a section write in which fs.readFile or fs.writeFile throws: the catch
\* logs, nothing is written and nothing is tried again
Attempted_Retries(call, failure) ==
    IF failure = "read" THEN call.content ELSE Transformed(call)

Attempted(call, failure) ==
    IF failure = "none" THEN Transformed(call) ELSE call.content

\* appendToSection / replaceSectionBody with a failing or a working file system
SectionWriteAttempt ==
    /\ ops < MaxFaultOps
    /\ \E op \in {"appendToSection", "replaceSectionBody"},
          sectionHeading \in WrittenSections,
          failure \in {"none", "read", "write"} :
          /\ file' = Attempted([op |-> op, section |-> sectionHeading,
                                 text |-> <<"-", SP, "x">>, content |-> Ensured.content],
                                failure)
          /\ last' = [op |-> op, text |-> Text(<<"-", SP, "x">>), id |-> NoId,
                       phase |-> UNSET, section |-> sectionHeading, failure |-> failure,
                       pre |-> [exists |-> fileExists, content |-> file,
                                phase |-> currentPhase]]
    /\ fileExists' = TRUE
    /\ specPath' = TRUE
    /\ ops' = ops + 1
    /\ UNCHANGED <<currentPhase, params, calls>>

\* getDeterminacyState / validatePlannedToolExecution while reads fail; the
\* value returned is FailingStateResult / FailingValidateResult below
QueryWhileFailing ==
    /\ \E failed \in ReadFailures, toolName \in ToolNames,
          op \in {"getDeterminacyState", "validatePlannedToolExecution"} :
          Commit(Ensured,
                 [op |-> op, text |-> Text(toolName), id |-> NoId, phase |-> UNSET,
                  failed |-> failed,
                  pre |-> [exists |-> fileExists, content |-> file,
                           phase |-> currentPhase]])
    /\ UNCHANGED ops

NextFault ==
    \/ SetPhase(MaxFaultOps)
    \/ SectionWriteAttempt
    \/ QueryWhileFailing

SpecFault == Init /\ [][NextFault]_vars

\* sanitizeContainerId on its own: a raw id is given, then sanitized, and the
\* result sanitized again
InitSanitize ==
    /\ fileExists = FALSE
    /\ file = <<>>
    /\ specPath = FALSE
    /\ currentPhase = UNSET
    /\ params = DefaultParams
    /\ calls = [c \in Callers |-> IdleCall]
    /\ ops = 0
    /\ \E rawId \in RawIds : last = [op |-> "rawId", id |-> rawId, rawId |-> rawId]

SanitizeContainerId ==
    /\ ops < 2
    /\ last' = [op |-> "sanitizeContainerId", id |-> sanitizeContainerId(last.id),
                 rawId |-> last.id]
    /\ ops' = ops + 1
    /\ UNCHANGED <<fileExists, file, specPath, currentPhase, params, calls>>

SpecSanitize == InitSanitize /\ [][SanitizeContainerId]_vars

\* const phaseLabel = this.currentPhase ? this.formatPhase(this.currentPhase) : "unspecified"
phaseLabel(phase) ==
    CASE phase = "instantiator" -> "A1 Instantiator"
      [] phase = "planner" -> "A2 Planner"
      [] phase = "implementer" -> "A3 Implementer"
      [] OTHER -> "unspecified"

\* engines are constructed anew over the document while phases are set
NextRestart ==
    \/ NewEngine(MaxRestartOps)
    \/ SetPhase(MaxRestartOps)
    \/ ValidatePlannedToolExecution
    \/ GetSpecInstructions

SpecRestart == Init /\ [][NextRestart]_vars

\* the Mechanics body is edited by hand, then read
EditMechanics ==
    /\ ops < 1
    /\ \E lines \in MechanicsBodies :
          Commit([content |-> replaceSectionBody(Ensured.content, SECTION_HEADINGS.mechanics,
                                                 Join(lines)),
                  phase |-> currentPhase],
                 [op |-> "editMechanics", lines |-> lines])
    /\ ops' = ops + 1

ReadInvariants ==
    /\ last.op = "editMechanics"
    /\ Commit([content |-> file, phase |-> currentPhase],
              [op |-> "readInvariants", lines |-> last.lines,
               result |-> readInvariants(file)])
    /\ UNCHANGED ops

\* a list is written into its section, then the section is read again
WriteInvariants ==
    /\ ops < 1
    /\ \E invariants \in InvariantLists :
          Commit([content |-> writeInvariants(Ensured.content, invariants),
                  phase |-> currentPhase],
                 [op |-> "writeInvariants", list |-> invariants])
    /\ ops' = ops + 1

WritePlanItemsFromList ==
    /\ ops < 1
    /\ \E items \in PlanLists :
          Commit([content |-> writePlanItemsFromList(Ensured.content, items),
                  phase |-> currentPhase],
                 [op |-> "writePlanItemsFromList", list |-> items])
    /\ ops' = ops + 1

ReadBack ==
    /\ last.op \in {"writeInvariants", "writePlanItemsFromList"}
    /\ Commit([content |-> file, phase |-> currentPhase],
              [op |-> "readBack", of |-> last.op, list |-> last.list,
               result |-> IF last.op = "writeInvariants"
                          THEN readInvariants(file) ELSE readPlanItems(file)])
    /\ UNCHANGED ops

NextCodec ==
    \/ EditMechanics
    \/ ReadInvariants
    \/ WriteInvariants
    \/ WritePlanItemsFromList
    \/ ReadBack

SpecCodec == Init /\ [][NextCodec]_vars

SayCall(event) ==
    [op |-> "recordSayEvent", text |-> event.text, id |-> NoId, phase |-> UNSET,
     event |-> event,
     pre |-> [exists |-> fileExists, content |-> file, phase |-> currentPhase]]

RecordSayEvent ==
    /\ ops < MaxSayOps
    /\ \E event \in SayEvents :
          IF Records(event)
          THEN Commit(recordSayEvent(Ensured, event), SayCall(event))
          ELSE /\ last' = SayCall(event)
               /\ UNCHANGED <<fileExists, file, specPath, currentPhase, params, calls>>
    /\ ops' = ops + 1

SpecSay == Init /\ [][RecordSayEvent]_vars

\* appendToSection and replaceSectionBody called on their own
SectionCall(op, sectionHeading, text) ==
    [op |-> op, text |-> Text(text), id |-> NoId, phase |-> UNSET,
     section |-> sectionHeading,
     pre |-> [exists |-> fileExists, content |-> file, phase |-> currentPhase]]

AppendToSection ==
    /\ ops < MaxSectionOps
    /\ \E sectionHeading \in WrittenSections, entry \in SectionEntries :
          Commit([content |-> appendToSection(Ensured.content, sectionHeading, entry),
                  phase |-> currentPhase],
                 SectionCall("appendToSection", sectionHeading, entry))
    /\ ops' = ops + 1

ReplaceSectionBody ==
    /\ ops < MaxSectionOps
    /\ \E sectionHeading \in WrittenSections, newBody \in SectionBodies :
          Commit([content |-> replaceSectionBody(Ensured.content, sectionHeading, newBody),
                  phase |-> currentPhase],
                 SectionCall("replaceSectionBody", sectionHeading, newBody))
    /\ ops' = ops + 1

NextSection ==
    \/ AppendToSection
    \/ ReplaceSectionBody

SpecSection == Init /\ [][NextSection]_vars

\* the document up to the line before a heading: the sections from that
\* heading on have been deleted from the file
CutBefore(content, sectionHeading) ==
    TrimEnd(SubSeq(content, 1, IndexOf(content, sectionHeading, 1) - 1)) \o <<NL>>

\* files found at the container's path that lack sections of the template:
\* all but the Task-Claim section, or the Plan State section and what follows
\* it
MissingDocuments ==
    { CutBefore(Template(DefaultParams), SECTION_HEADINGS.mappingLayer) }
    \cup { CutBefore(document, SECTION_HEADINGS.plan) : document \in ExistingDocuments }

InitMissing ==
    /\ fileExists = TRUE
    /\ file \in MissingDocuments
    /\ specPath = FALSE
    /\ currentPhase = UNSET
    /\ params = DefaultParams
    /\ calls = [c \in Callers |-> IdleCall]
    /\ ops = 0
    /\ last = [op |-> "init", text |-> Absent, id |-> NoId, phase |-> UNSET,
               pre |-> [exists |-> fileExists, content |-> file, phase |-> UNSET]]

NextMissing ==
    \/ AppendToSection
    \/ ReplaceSectionBody
    \/ GetDeterminacyState

SpecMissing == InitMissing /\ [][NextMissing]_vars

\* ------------------------------------------------------------------------
\* What the last call saw and returned
\* ------------------------------------------------------------------------

\* the document the last call worked on (after its ensureInitialized)
\* a copy of the document kept from initialization
PreContent_Stale == Template(params)

PreContent ==
    ensureSpecFile(last.pre.exists, last.pre.content, Metadata(params), params.initialTask)

\* the value returned by the last call, a getDeterminacyState
GetDeterminacyStateResult == getDeterminacyState(PreContent)

\* the value returned by the last call, a validatePlannedToolExecution
ValidateResult == validatePlannedToolExecution(PreContent, last.pre.phase, last.text.text)

\* the plan-and-implement loop on a new container: the planner records a plan
\* of n steps, the implementer phase is entered, and then each step is
\* authorized by its text and completed under the id the authorization returned
StepLine(i) == <<"step", SP, ToString(i)>>

ProgressPlans == { Join([i \in 1..n |-> StepLine(i)]) : n \in 1..MaxPlanLines }

InitProgress ==
    /\ fileExists = FALSE
    /\ file = <<>>
    /\ specPath = FALSE
    /\ currentPhase = UNSET
    /\ params = DefaultParams
    /\ calls = [c \in Callers |-> IdleCall]
    /\ ops = 0
    /\ last = [op |-> "init", text |-> Absent, id |-> NoId, phase |-> UNSET,
               pre |-> [exists |-> fileExists, content |-> file, phase |-> UNSET]]

PlanSteps ==
    /\ last.op = "init"
    /\ \E planText \in ProgressPlans :
          Commit(recordPlanUpdate(Ensured, Text(planText)),
                 Call("recordPlanUpdate", Text(planText), NoId, UNSET))
    /\ ops' = ops + 1

EnterImplementer ==
    /\ last.op = "recordPlanUpdate"
    /\ \E in \in {i \in PhaseInputs : i.phase = "implementer"} :
          Commit(setPhase(Ensured, in.phase, in.reason),
                 Call("setPhase", Text(in.reason), NoId, in.phase))
    /\ ops' = ops + 1

\* validatePlannedToolExecution with the text of a step that is still todo
AuthorizeStep ==
    /\ last.op \in {"setPhase", "markPlanStepComplete"}
    /\ \E i \in DOMAIN readPlanItems(file) :
          /\ readPlanItems(file)[i].status = "todo"
          /\ Commit(Ensured, Call("validatePlannedToolExecution",
                                  Text(readPlanItems(file)[i].text), NoId, UNSET))
    /\ UNCHANGED ops

\* markPlanStepComplete with the planItemId of the allow just returned
CompleteStep ==
    /\ last.op = "validatePlannedToolExecution"
    /\ ValidateResult.allowed
    /\ \E note \in {<<>>, <<"ok">>, <<"checked">>} :
          Commit(markPlanStepComplete(Ensured, ValidateResult.planItemId, note),
                 Call("markPlanStepComplete", Text(note), ValidateResult.planItemId, UNSET))
    /\ ops' = ops + 1

NextProgress ==
    \/ PlanSteps
    \/ EnterImplementer
    \/ AuthorizeStep
    \/ CompleteStep

SpecProgress == InitProgress /\ [][NextProgress]_vars

\* the values returned by the last call, made while the reads last.failed fail
FailingStateResult == getDeterminacyStateFailing(PreContent, last.failed)

FailingValidateResult ==
    validateFailing(PreContent, last.failed, last.pre.phase, last.text.text)

\* text contains name as a substring, letter case ignored
ContainsIgnoreCase(text, name) ==
    \E i \in 1..(Len(text) - Len(name) + 1) :
        \A k \in 1..Len(name) : LowerTok(text[i + k - 1]) = LowerTok(name[k])

\* ------------------------------------------------------------------------
\* Claims
\* ------------------------------------------------------------------------

\* C1: authorizeAction (validatePlannedToolExecution) denies whenever the
\* in-memory phase is not implementer (instantiator, planner or never set),
\* whatever the action name and whatever plan, invariants and mapping the
\* document holds.
C1_DeniesOutsideImplementer ==
    (last.op = "validatePlannedToolExecution" /\ last.pre.phase # "implementer")
        => LET result == ValidateResult
           IN ~result.allowed /\ result.planItemId = NoId

\* a call outside the implementer phase on a document that is ready and holds
\* a todo item containing the name
C1_Witness ==
    /\ last.op = "validatePlannedToolExecution"
    /\ last.pre.phase \in {UNSET, "planner"}
    /\ LET state == getDeterminacyState(PreContent)
       IN /\ state.readyForImplementation
          /\ \E i \in DOMAIN state.plan :
                /\ state.plan[i].status = "todo"
                /\ ContainsIgnoreCase(state.plan[i].text, last.text.text)
    /\ ~ValidateResult.allowed

\* C2: authorizeAction(name) allows only if the phase is implementer,
\* readyForImplementation is true and some todo plan item's text contains name
\* (case-insensitively); the returned planItemId is the id of such a todo item.
\* A name matching only done items, or none, is denied.
C2_AllowOnlyForOpenMatchingStep ==
    last.op = "validatePlannedToolExecution"
        => LET result == ValidateResult
               state == getDeterminacyState(PreContent)
           IN result.allowed
                => /\ last.pre.phase = "implementer"
                   /\ state.readyForImplementation
                   /\ \E i \in DOMAIN state.plan :
                         /\ state.plan[i].status = "todo"
                         /\ ContainsIgnoreCase(state.plan[i].text, last.text.text)
                         /\ state.plan[i].id = result.planItemId

\* an allow on a plan that also holds a done item containing the name
C2_Witness ==
    /\ last.op = "validatePlannedToolExecution"
    /\ ValidateResult.allowed
    /\ LET plan == readPlanItems(PreContent)
       IN \E i \in DOMAIN plan :
             /\ plan[i].status = "done"
             /\ ContainsIgnoreCase(plan[i].text, last.text.text)

\* C3: when several todo items contain the name, the id returned is that of
\* the first of them in document order; earlier done items and earlier
\* non-matching items are skipped.
C3_FirstMatchWins ==
    last.op = "validatePlannedToolExecution"
        => LET result == ValidateResult
               plan == readPlanItems(PreContent)
           IN result.allowed
                => \E i \in DOMAIN plan :
                      /\ plan[i].id = result.planItemId
                      /\ plan[i].status = "todo"
                      /\ ContainsIgnoreCase(plan[i].text, last.text.text)
                      /\ \A j \in 1..(i - 1) :
                            \/ plan[j].status = "done"
                            \/ ~ContainsIgnoreCase(plan[j].text, last.text.text)

\* an allow with two todo items containing the name, after a done item that
\* contains it and a todo item that does not
C3_Witness ==
    /\ last.op = "validatePlannedToolExecution"
    /\ LET plan == readPlanItems(PreContent)
           name == last.text.text
           result == ValidateResult
       IN /\ result.allowed
          /\ Cardinality({i \in DOMAIN plan : plan[i].status = "todo"
                               /\ ContainsIgnoreCase(plan[i].text, name)}) >= 2
          /\ \E i, j, k \in DOMAIN plan :
                /\ i < k /\ j < k
                /\ plan[k].id = result.planItemId
                /\ plan[i].status = "done" /\ ContainsIgnoreCase(plan[i].text, name)
                /\ plan[j].status = "todo" /\ ~ContainsIgnoreCase(plan[j].text, name)

\* C4: readyForImplementation = (some plan item is todo) AND (2 * satisfied >=
\* total with total > 0, OR no invariant has a status other than unknown).
C4_ReadyForImplementation ==
    last.op = "getDeterminacyState"
        => LET r == GetDeterminacyStateResult
               total == Len(r.invariants)
               sat == Cardinality({i \in DOMAIN r.invariants : r.invariants[i].status = "satisfied"})
               judged == \E i \in DOMAIN r.invariants : r.invariants[i].status \in {"satisfied", "violated"}
               todo == \E i \in DOMAIN r.plan : r.plan[i].status = "todo"
           IN /\ r.readyForImplementation = (todo /\ ((total > 0 /\ 2 * sat >= total) \/ ~judged))
              /\ (todo /\ ~judged) => r.readyForImplementation
              /\ (judged /\ 2 * sat < total) => ~r.readyForImplementation
              /\ ~todo => ~r.readyForImplementation

\* a todo item, an invariant judged, fewer than half satisfied: not ready
C4_Witness ==
    /\ last.op = "getDeterminacyState"
    /\ LET r == GetDeterminacyStateResult
       IN /\ \E i \in DOMAIN r.plan : r.plan[i].status = "todo"
          /\ \E i \in DOMAIN r.invariants : r.invariants[i].status = "satisfied"
          /\ \E i \in DOMAIN r.invariants : r.invariants[i].status = "violated"
          /\ \E i \in DOMAIN r.invariants : r.invariants[i].status = "unknown"
          /\ ~r.readyForImplementation

\* C6: 0 <= determinacy <= 1, determinacy is satisfied / max(1, total), and it
\* is exactly 0 (not undefined) when the document holds no invariant.
C6_DeterminacyBounds ==
    last.op = "getDeterminacyState"
        => LET r == GetDeterminacyStateResult
               total == Len(r.invariants)
               sat == Cardinality({i \in DOMAIN r.invariants : r.invariants[i].status = "satisfied"})
               d == r.determinacy
           IN /\ d.den >= 1
              /\ 0 <= d.num /\ d.num <= d.den
              /\ 0 <= sat /\ sat <= (IF total > 1 THEN total ELSE 1)
              /\ d.num * (IF total > 1 THEN total ELSE 1) = sat * d.den
              /\ total = 0 => d.num = 0

\* a document without invariants, evaluated
C6_Witness ==
    /\ last.op = "getDeterminacyState"
    /\ LET r == GetDeterminacyStateResult
       IN Len(r.invariants) = 0 /\ r.determinacy.num = 0

\* descriptions and statuses of the invariants of a document, in order
DescribedInvariants(invariants) ==
    [i \in DOMAIN invariants |->
        [description |-> invariants[i].description, status |-> invariants[i].status]]

InvariantList(content) == DescribedInvariants(readInvariants(content))

\* texts and statuses of the plan items of a document, in order
TextedItems(items) ==
    [i \in DOMAIN items |-> [text |-> items[i].text, status |-> items[i].status]]

PlanList(content) == TextedItems(readPlanItems(content))

\* the non-empty trimmed lines of a text
TrimmedLines(text) == TrimmedPlanLines(Split(text))

\* C5: readyForPlanning is true iff the Mapping-Layer section body (the lines
\* after the heading) has a trimmed non-empty line that neither contains
\* "pending" nor ends with ": _", and there is at least one invariant; a body of
\* placeholder lines only gives false however many invariants exist.
C5_ReadyForPlanning ==
    last.op = "getDeterminacyState"
        => LET r == GetDeterminacyStateResult
               body == Tail(Split(SectionSlice(PreContent, SECTION_HEADINGS.mappingLayer)))
               meaningful == \E i \in DOMAIN body :
                                /\ Trim(body[i]) # <<>>
                                /\ ~Includes(Trim(body[i]), PENDING)
                                /\ ~EndsWith(Trim(body[i]), PLACEHOLDER_SUFFIX)
           IN r.readyForPlanning = (meaningful /\ Len(r.invariants) > 0)

\* C7: recordPlan with text: if the document held no invariant before the
\* call, it afterwards holds exactly one unknown invariant per non-empty plan
\* line, in plan order, described "Plan alignment: <line>"; if it held one or
\* more, the invariant list is unchanged.
C7_SeedsInvariants ==
    (last.op = "recordPlanUpdate" /\ last.text.present /\ last.text.text # <<>>)
        => LET before == InvariantList(PreContent)
               after == InvariantList(file)
               lines == TrimmedLines(last.text.text)
           IN IF before = <<>>
              THEN after = [i \in DOMAIN lines |->
                              [description |-> <<"Plan", SP, "alignment", ":", SP>> \o lines[i],
                               status |-> "unknown"]]
              ELSE after = before

\* C8: recordPlan with text replaces the Plan body: the plan items read
\* afterwards are exactly the non-empty trimmed lines of the text, in order,
\* all todo.  recordPlan without text appends one placeholder line and leaves
\* the plan-item list and the invariant list as they were.
C8_ReplacesPlan ==
    last.op = "recordPlanUpdate"
        => IF last.text.present /\ last.text.text # <<>>
           THEN PlanList(file) = [i \in DOMAIN TrimmedLines(last.text.text) |->
                                    [text |-> TrimmedLines(last.text.text)[i], status |-> "todo"]]
           ELSE /\ PlanList(file) = PlanList(PreContent)
                /\ InvariantList(file) = InvariantList(PreContent)
                /\ Includes(SectionSlice(file, SECTION_HEADINGS.plan),
                            <<"[A2 Planner]", SP, "@", SP, TS, ":", SP, "(no plan text provided)">>)

\* C9: one completeStep changes at most one invariant: the first unknown one
\* becomes satisfied, every other keeps status, description and position; with
\* no unknown invariant the list is unchanged.
C9_FlipsFirstUnknown ==
    last.op = "markPlanStepComplete"
        => LET before == InvariantList(PreContent)
               after == InvariantList(file)
               unknown == {i \in DOMAIN before : before[i].status = "unknown"}
           IN IF unknown = {} THEN after = before
              ELSE after = [before EXCEPT ![Min(unknown)].status = "satisfied"]

\* C10: completeStep(planItemId) sets the item with that id to done and leaves
\* every other item's status, text and order unchanged; a done item stays
\* done; no item is added or dropped as long as the plan holds one.
C10_MarksStepDone ==
    last.op = "markPlanStepComplete"
        => LET before == readPlanItems(PreContent)
               after == PlanList(file)
           IN /\ \A i \in DOMAIN before :
                    /\ i \in DOMAIN after
                    /\ after[i].text = before[i].text
                    /\ after[i].status = IF before[i].id = last.id THEN "done"
                                         ELSE before[i].status
              /\ before # <<>> => Len(after) = Len(before)

\* C11: once a document exists for the container, an ensure call (by the
\* engine that created it or by a later engine constructed with another title,
\* scope or initial task) leaves its content exactly as it was, entries
\* recorded since creation included; an operation of the later engine works
\* on that content.
C11_EnsureIdempotent ==
    /\ (last.op = "ensureInitialized" /\ last.pre.exists)
            => (fileExists /\ file = last.pre.content)
    /\ (last.op = "recordOpenQuestion" /\ last.pre.exists)
            => file = recordOpenQuestion([content |-> last.pre.content,
                                          phase |-> last.pre.phase],
                                         last.text.text).content

\* an ensure by an engine with other parameters than the document was created
\* with, on a document that holds a recorded entry
C11_Witness ==
    /\ last.op = "ensureInitialized"
    /\ last.pre.exists
    /\ params # DefaultParams
    /\ ~Includes(file, buildFrontmatter(Metadata(params)))
    /\ Includes(file, <<"[A1 Instantiator]">>)
    /\ file # Template(params)

\* the headings of the template
Headings == {SECTION_HEADINGS[k] : k \in DOMAIN SECTION_HEADINGS}

\* the index of the first line of lines that is the heading, 0 if none
HeadingLine(lines, heading) ==
    IF \E i \in DOMAIN lines : lines[i] = heading
    THEN Min({i \in DOMAIN lines : lines[i] = heading})
    ELSE 0

\* the index of the first line after line from that is a heading of the
\* template, one past the last line if none
NextHeadingLine(lines, from) ==
    IF \E i \in (from + 1)..Len(lines) : lines[i] \in Headings
    THEN Min({i \in (from + 1)..Len(lines) : lines[i] \in Headings})
    ELSE Len(lines) + 1

BodyBetween(lines, headingLine) ==
    IF headingLine = 0 THEN <<>>
    ELSE SubSeq(lines, headingLine + 1, NextHeadingLine(lines, headingLine) - 1)

\* the body of a section of a document: the lines after the line that is the
\* section's heading, up to the next line that is a heading of the template
BodyOf(lines, heading) == BodyBetween(lines, HeadingLine(lines, heading))

BodyLines(content, heading) == BodyOf(Split(content), heading)

\* the metadata header: the lines before the first heading of the template
HeaderLines(content) == SubSeq(Split(content), 1, NextHeadingLine(Split(content), 0) - 1)

NonBlank(lines) == SelectSeq(lines, NonEmpty)

\* C12: an appendEntry (appendToSection) leaves the lines the section body
\* held in place and in order and adds the lines of the entry after them; by
\* induction N calls give all N entries in call order after the earlier lines.
C12_AppendOnly ==
    last.op = "appendToSection"
        => NonBlank(BodyLines(file, last.section))
             = NonBlank(BodyLines(PreContent, last.section)) \o Split(last.text.text)

\* C13: appendEntry and replaceBody on section X leave the metadata header
\* and the body of every other section of the template as they were.
C13_SectionIsolation ==
    last.op \in {"appendToSection", "replaceSectionBody"}
        => /\ HeaderLines(file) = HeaderLines(PreContent)
           /\ \A heading \in Headings \ {last.section} :
                 BodyLines(file, heading) = BodyLines(PreContent, heading)

\* the document and phase the last call started from, once ensured
PreState == [content |-> PreContent, phase |-> last.pre.phase]

PostState == [content |-> file, phase |-> currentPhase]

\* C14: a non-partial event of a recognized kind has the effect of exactly
\* one recorder: task -> recordUserIntent; reasoning, generate_explanation,
\* task_progress -> recordPlanUpdate; error, clineignore_error ->
\* recordOpenQuestion; the nine implementation kinds ->
\* recordImplementationUpdate with the kind.
C14_Routing ==
    (last.op = "recordSayEvent" /\ ~last.event.partial)
        => /\ last.event.type = "task"
                => PostState = recordUserIntent(PreState,
                                   OrElse(last.text, <<"(no task text provided)">>),
                                   NoAttachments)
           /\ last.event.type \in {"reasoning", "generate_explanation", "task_progress"}
                => PostState = recordPlanUpdate(PreState, last.text)
           /\ last.event.type \in {"error", "clineignore_error"}
                => PostState = recordOpenQuestion(PreState,
                                   OrElse(last.text, <<"Error emitted by task">>))
           /\ last.event.type \in {"command", "command_output", "tool",
                                    "checkpoint_created", "user_feedback_diff",
                                    "hook_output", "api_req_started",
                                    "api_req_finished", "completion_result"}
                => PostState = recordImplementationUpdate(PreState, last.event.type,
                                   OrEmpty(last.text))

C14_Witness ==
    /\ last.op = "recordSayEvent"
    /\ ~last.event.partial
    /\ last.event.type = "clineignore_error"
    /\ ~last.text.present
    /\ Includes(file, <<"Error emitted by task">>)
    /\ ~Includes(file, <<"[A3 Implementer:">>)
    /\ currentPhase = "instantiator"

\* C15: an event flagged partial, or one whose kind is not recognized,
\* changes nothing: the file (absent or not), its content and the phase in
\* memory are as before the call.
C15_DroppedEvents ==
    (/\ last.op = "recordSayEvent"
     /\ \/ last.event.partial
        \/ last.event.type \notin {"task", "reasoning", "generate_explanation",
                                    "task_progress", "error", "clineignore_error",
                                    "command", "command_output", "tool",
                                    "checkpoint_created", "user_feedback_diff",
                                    "hook_output", "api_req_started",
                                    "api_req_finished", "completion_result"})
        => /\ fileExists = last.pre.exists
           /\ file = last.pre.content
           /\ currentPhase = last.pre.phase

C15_Witness ==
    /\ last.op = "recordSayEvent"
    /\ last.event.partial
    /\ last.event.type = "task"
    /\ last.text.present
    /\ ~last.pre.exists
    /\ ~fileExists

\* C16: getSpecInstructions, getDeterminacyState and
\* validatePlannedToolExecution on an existing document leave the document
\* content and the phase in memory as they were.
C16_QueriesReadOnly ==
    (/\ last.op \in {"getSpecInstructions", "getDeterminacyState",
                      "validatePlannedToolExecution"}
     /\ last.pre.exists)
        => /\ fileExists
           /\ file = last.pre.content
           /\ currentPhase = last.pre.phase

C16_Witness ==
    /\ last.op = "getSpecInstructions"
    /\ last.pre.exists
    /\ currentPhase = "planner"
    /\ file # Template(params)
    /\ file \notin ExistingDocuments

C18_LastWriteWins ==
    (/\ \A c \in Callers : calls[c].pc = "done"
     /\ calls[1].content = calls[2].content)
        => /\ last.op = "writeFile"
           /\ Includes(file, CallEntry(last.caller))
           /\ \A c \in Callers \ {last.caller} : ~Includes(file, CallEntry(c))

C18_Witness ==
    /\ \A c \in Callers : calls[c].pc = "done" /\ calls[c].op = "appendToSection"
    /\ calls[1].section = calls[2].section
    /\ calls[1].content = calls[2].content
    /\ last.op = "writeFile"
    /\ last.caller = 2
    /\ Includes(file, CallEntry(2))
    /\ ~Includes(file, CallEntry(1))

\* the line setPhase logs
PhaseLine(phase, reason) ==
    <<"-", SP,
      CASE phase = "instantiator" -> "[Loop A1 Instantiator]"
        [] phase = "planner" -> "[Loop A2 Planner]"
        [] phase = "implementer" -> "[Loop A3 Implementer]",
      SP, TS>> \o (IF reason # <<>> THEN <<SP, DASH, SP>> \o reason ELSE <<>>)

IsPhaseLine(line) ==
    /\ Len(line) >= 3
    /\ line[3] \in {"[Loop A1 Instantiator]", "[Loop A2 Planner]", "[Loop A3 Implementer]"}

\* the phase lines of the Task-Claim section, in order
PhaseLog(content) == SelectSeq(BodyLines(content, SECTION_HEADINGS.taskClaim), IsPhaseLine)

TaskClaimLines(content) == NonBlank(BodyLines(content, SECTION_HEADINGS.taskClaim))

\* C19: setPhase(phase, reason) leaves document and phase alone exactly when
\* phase is the current phase and no reason is given; otherwise the phase in
\* memory becomes phase, whatever it was, and the Task-Claim section gains
\* exactly one line, the phase line, after the lines it held.
C19_SetPhase ==
    last.op = "setPhase"
        => IF last.pre.phase = last.phase /\ last.text.text = <<>>
           THEN /\ file = PreContent
                /\ currentPhase = last.pre.phase
           ELSE /\ currentPhase = last.phase
                /\ TaskClaimLines(file)
                     = Append(TaskClaimLines(PreContent), PhaseLine(last.phase, last.text.text))

C19_Witness ==
    /\ last.op = "setPhase"
    /\ last.pre.phase = "implementer"
    /\ last.phase = "implementer"
    /\ last.text.text # <<>>
    /\ currentPhase = "implementer"
    /\ Len(PhaseLog(file)) = 2

\* log is earlier followed by one line, a phase line with the label
OneMore(earlier, log, label) ==
    /\ Len(log) = Len(earlier) + 1
    /\ SubSeq(log, 1, Len(earlier)) = earlier
    /\ log[Len(log)][3] = label

\* C20: after recordUserIntent and recordOpenQuestion the phase in memory is
\* instantiator, after recordPlanUpdate (with or without text) planner, after
\* recordImplementationUpdate implementer; and each such call adds one phase
\* line, for that phase, to the Task-Claim section even when the phase was
\* already that one.
C20_RecordingPhase ==
    /\ last.op \in {"recordUserIntent", "recordOpenQuestion"} => currentPhase = "instantiator"
    /\ last.op = "recordPlanUpdate" => currentPhase = "planner"
    /\ last.op = "recordImplementationUpdate" => currentPhase = "implementer"
    /\ last.op \in {"recordUserIntent", "recordOpenQuestion", "recordPlanUpdate",
                     "recordImplementationUpdate"}
          => OneMore(PhaseLog(PreContent), PhaseLog(file), LoopTok(currentPhase))

C20_Witness ==
    /\ last.op = "recordPlanUpdate"
    /\ ~last.text.present
    /\ last.pre.phase = "planner"
    /\ currentPhase = "planner"
    /\ Len(PhaseLog(file)) = 2
    /\ PhaseLog(file)[1][3] = "[Loop A2 Planner]"
    /\ PhaseLog(file)[2][3] = "[Loop A2 Planner]"

\* C21: a read that fails during getDeterminacyState or
\* validatePlannedToolExecution never makes the result more permissive: the
\* document is ready for implementation, or the tool allowed, under the
\* failure only if it is so on the same document without the failure.
C21_FailsClosed ==
    ("failed" \in DOMAIN last)
        => /\ FailingStateResult.readyForImplementation
                => GetDeterminacyStateResult.readyForImplementation
           /\ FailingValidateResult.allowed => ValidateResult.allowed

\* C22: a section write whose read or write fails leaves the document as the
\* call found it.
C22_FailedWriteIsNoOp ==
    ("failure" \in DOMAIN last /\ last.failure # "none" /\ last.pre.exists)
        => /\ fileExists
           /\ file = last.pre.content

C22_Witness ==
    /\ "failure" \in DOMAIN last
    /\ last.failure = "write"
    /\ last.op = "appendToSection"
    /\ last.pre.exists
    /\ file = last.pre.content
    /\ file # Transformed([op |-> last.op, section |-> last.section,
                            text |-> last.text.text, content |-> last.pre.content])

\* nothing but phase changes has been recorded on the created document: every
\* section but Task-Claim is as in the template, and Task-Claim holds the
\* template's lines followed by phase lines only
OnlyPhasesRecorded(content) ==
    /\ \A heading \in Headings \ {SECTION_HEADINGS.taskClaim} :
          BodyLines(content, heading) = BodyLines(Template(params), heading)
    /\ \E n \in 0..MaxOps + 1 :
          /\ Len(TaskClaimLines(content)) = Len(TaskClaimLines(Template(params))) + n
          /\ SubSeq(TaskClaimLines(content), 1, Len(TaskClaimLines(Template(params))))
                = TaskClaimLines(Template(params))
          /\ Len(PhaseLog(content)) = n

\* C23: on a freshly created document on which nothing but phase changes has
\* been recorded, getDeterminacyState sees no invariant and is not ready for
\* implementation, and validatePlannedToolExecution denies, in implementer
\* phase too.
C23_PlaceholderIsAbsence ==
    /\ (last.op = "getDeterminacyState" /\ OnlyPhasesRecorded(file))
          => /\ Len(GetDeterminacyStateResult.invariants) = 0
             /\ ~GetDeterminacyStateResult.readyForImplementation
    /\ (last.op = "validatePlannedToolExecution" /\ OnlyPhasesRecorded(file))
          => ~ValidateResult.allowed

\* the maximal runs of characters of a-z0-9 in chars, run being the one open
RECURSIVE AlnumRuns(_, _)
AlnumRuns(chars, run) ==
    IF chars = <<>> THEN (IF run = <<>> THEN <<>> ELSE <<run>>)
    ELSE IF chars[1] \in ALNUM THEN AlnumRuns(Tail(chars), Append(run, chars[1]))
    ELSE (IF run = <<>> THEN <<>> ELSE <<run>>) \o AlnumRuns(Tail(chars), <<>>)

RECURSIVE HyphenJoined(_)
HyphenJoined(runs) ==
    IF runs = <<>> THEN <<>>
    ELSE IF Len(runs) = 1 THEN runs[1]
    ELSE runs[1] \o <<"-">> \o HyphenJoined(Tail(runs))

\* the lower-cased runs of letters and digits joined by single hyphens, or
\* "task" when there is none
ExpectedId(rawId) ==
    IF AlnumRuns([i \in DOMAIN rawId |-> LowerChar(rawId[i])], <<>>) = <<>>
    THEN <<"t", "a", "s", "k">>
    ELSE HyphenJoined(AlnumRuns([i \in DOMAIN rawId |-> LowerChar(rawId[i])], <<>>))

\* C24: the sanitized id is the lower-cased raw id with every maximal run of
\* characters outside a-z0-9 replaced by one hyphen and no hyphen at either
\* end, "task" when nothing is left: never empty, made of a-z, 0-9 and single
\* interior hyphens, and unchanged by sanitizing it again; "Auth Tokens!!"
\* gives "auth-tokens".
C24_Sanitized ==
    last.op = "sanitizeContainerId"
        => /\ last.id = ExpectedId(last.rawId)
           /\ last.id # <<>>
           /\ \A i \in DOMAIN last.id : last.id[i] \in ALNUM \cup {"-"}
           /\ last.id[1] # "-" /\ last.id[Len(last.id)] # "-"
           /\ \A i \in 1..Len(last.id) - 1 : ~(last.id[i] = "-" /\ last.id[i + 1] = "-")
           /\ sanitizeContainerId(last.id) = last.id
           /\ last.rawId = <<"A", "u", "t", "h", " ", "T", "o", "k", "e", "n", "s", "!", "!">>
                => last.id = <<"a", "u", "t", "h", "-", "t", "o", "k", "e", "n", "s">>

C24_Witness ==
    /\ last.op = "sanitizeContainerId"
    /\ last.rawId = <<"!", "T", " ">>
    /\ last.id = <<"t">>

\* the item or invariant with id n was read from line n of the body
ReadFromLine(body, n, text) ==
    /\ n \in DOMAIN body
    /\ Len(Trim(body[n])) >= Len(text)
    /\ SubSeq(Trim(body[n]), Len(Trim(body[n])) - Len(text) + 1, Len(Trim(body[n]))) = text

\* C25: the plan item read from the line with zero-based index i of the Plan
\* section body (the lines after the heading line) has id S<i+1>, and the
\* invariant read from line i of the Mechanics section body has id I<i+1>.
C25_PositionalIds ==
    last.op = "getDeterminacyState"
        => /\ \A k \in DOMAIN GetDeterminacyStateResult.plan :
                 /\ GetDeterminacyStateResult.plan[k].id.k = "S"
                 /\ ReadFromLine(BodyLines(PreContent, SECTION_HEADINGS.plan),
                                  GetDeterminacyStateResult.plan[k].id.n,
                                  GetDeterminacyStateResult.plan[k].text)
           /\ \A k \in DOMAIN GetDeterminacyStateResult.invariants :
                 /\ GetDeterminacyStateResult.invariants[k].id.k = "I"
                 /\ ReadFromLine(BodyLines(PreContent, SECTION_HEADINGS.mechanics),
                                  GetDeterminacyStateResult.invariants[k].id.n,
                                  GetDeterminacyStateResult.invariants[k].description)

\* C26: whenever an evaluation finds the document not ready for planning
\* while the phase is planner or implementer, the phase is pushed back to
\* instantiator.
C26_PushedBack ==
    (/\ last.op = "getDeterminacyState"
     /\ last.pre.phase \in {"planner", "implementer"}
     /\ ~GetDeterminacyStateResult.readyForPlanning)
        => currentPhase = "instantiator"

\* no phase line of the document names the implementer: no instance has set
\* that phase
NoImplementerLogged ==
    \A i \in DOMAIN PhaseLog(file) : PhaseLog(file)[i][3] # "[Loop A3 Implementer]"

\* C27 as stated: as long as no operation has set the phase to implementer,
\* validatePlannedToolExecution denies and getSpecInstructions reports the
\* phase as "unspecified".
C27_UntilImplementer ==
    NoImplementerLogged
        => /\ last.op = "validatePlannedToolExecution" => ~ValidateResult.allowed
           /\ last.op = "getSpecInstructions" => phaseLabel(last.pre.phase) = "unspecified"

\* C27: a newly constructed engine starts with the phase unset and leaves the
\* document alone, whatever phase lines it holds; validatePlannedToolExecution
\* denies for the phase as long as the instance's phase is not implementer;
\* getSpecInstructions reports "unspecified" exactly as long as no phase has
\* been set on the instance.
C27_PhaseInMemory ==
    /\ last.op = "constructor"
          => (currentPhase = UNSET /\ file = last.pre.content)
    /\ (last.op = "validatePlannedToolExecution" /\ last.pre.phase # "implementer")
          => (~ValidateResult.allowed /\ ValidateResult.reason = REASON_PHASE)
    /\ last.op = "getSpecInstructions"
          => (phaseLabel(last.pre.phase) = "unspecified" <=> last.pre.phase = UNSET)
    /\ (last.op = "getSpecInstructions" /\ last.pre.phase = UNSET)
          => currentPhase = UNSET

C27_Witness ==
    /\ last.op = "validatePlannedToolExecution"
    /\ last.pre.phase = UNSET
    /\ ~NoImplementerLogged
    /\ ~ValidateResult.allowed
    /\ validatePlannedToolExecution(file, "implementer", last.text.text).allowed

\* what one trimmed line of a Mechanics body yields: nothing, or one
\* invariant, given as status and description
Outcome(line) ==
    IF line = <<>> THEN <<>>
    ELSE IF /\ Len(line) >= 5
            /\ SubSeq(line, 1, 2) = <<"-", SP>>
            /\ line[3] \in {"[satisfied]", "[SATISFIED]", "[violated]", "[Violated]",
                             "[unknown]", "[Unknown]"}
            /\ line[4] = SP
    THEN << [status |-> CASE line[3] \in {"[satisfied]", "[SATISFIED]"} -> "satisfied"
                          [] line[3] \in {"[violated]", "[Violated]"} -> "violated"
                          [] OTHER -> "unknown",
             description |-> SubSeq(line, 5, Len(line))] >>
    ELSE IF EndsWith(line, <<":", SP, "_">>) \/ Includes(line, <<"pending">>) THEN <<>>
    ELSE << [status |-> "unknown",
             description |-> IF Len(line) >= 2 /\ SubSeq(line, 1, 2) = <<"-", SP>>
                             THEN SubSeq(line, 3, Len(line)) ELSE line] >>

RECURSIVE Outcomes(_)
Outcomes(lines) ==
    IF lines = <<>> THEN <<>> ELSE Outcome(Trim(lines[1])) \o Outcomes(Tail(lines))

\* C28: every non-empty line of the Mechanics body yields exactly one of: the
\* invariant of its tag (status in lower case) when it is "- [status]
\* description"; nothing when it ends with ": _" or holds "pending"; an
\* unknown invariant described by the line without its leading "- "
\* otherwise; the invariants come in line order.
C28_InvariantDecoding ==
    last.op = "readInvariants"
        => [i \in DOMAIN last.result |->
               [status |-> last.result[i].status,
                description |-> last.result[i].description]]
             = Outcomes(last.lines)

C28_Witness ==
    /\ last.op = "readInvariants"
    /\ last.lines = << <<"-", SP, "review", SP, "pending">>,
                        <<"-", SP, "[Violated]", SP, "pending", SP, "b">> >>
    /\ Len(last.result) = 1
    /\ last.result[1].status = "violated"

\* a list without its ids
Unnumbered(list) ==
    [i \in DOMAIN list |-> [f \in DOMAIN list[i] \ {"id"} |-> list[i][f]]]

\* C30: an invariant list or plan-item list written into its section and read
\* again has the same statuses, the same descriptions or texts and the same
\* order; the empty list reads back as the empty list.
C30_RoundTrip ==
    last.op = "readBack" => Unnumbered(last.result) = Unnumbered(last.list)

\* the number of lines of a document that are the heading
CopiesIn(lines, heading) ==
    Cardinality({i \in DOMAIN lines : lines[i] = heading})

HeadingCopies(content, heading) == CopiesIn(Split(content), heading)

\* the content a section write stores: the entry, or the trimmed new body
Stored(call) ==
    IF call.op = "appendToSection" THEN call.text.text ELSE Trim(call.text.text)

\* C29: a section whose heading is absent from the document reads as empty
\* (no plan items, no invariants, mapping layer not meaningful); an
\* appendToSection or replaceSectionBody for an absent heading stores the
\* earlier document, a blank line, the heading and the new content, in that
\* order; a write to a heading that is present adds no copy of the heading.
C29_MissingSection ==
    /\ last.op = "getDeterminacyState"
          => /\ ~Includes(PreContent, SECTION_HEADINGS.plan)
                   => GetDeterminacyStateResult.plan = <<>>
             /\ ~Includes(PreContent, SECTION_HEADINGS.mechanics)
                   => GetDeterminacyStateResult.invariants = <<>>
             /\ ~Includes(PreContent, SECTION_HEADINGS.mappingLayer)
                   => ~hasMappingLayer(PreContent)
    /\ last.op \in {"appendToSection", "replaceSectionBody"}
          => IF Includes(PreContent, last.section)
             THEN HeadingCopies(file, last.section)
                    = HeadingCopies(PreContent, last.section)
             ELSE file = TrimEnd(PreContent) \o <<NL, NL>> \o last.section
                            \o <<NL>> \o Stored(last) \o <<NL>>

\* two writes to the Open Questions section of a document that lacked it: the
\* first created the heading, the second found it, and there is one copy
C29_Witness ==
    /\ ops = 2
    /\ last.op \in {"appendToSection", "replaceSectionBody"}
    /\ last.section = SECTION_HEADINGS.openQuestions
    /\ Includes(PreContent, last.section)
    /\ ~Includes(PreContent, SECTION_HEADINGS.plan)
    /\ HeadingCopies(file, last.section) = 1

\* C31: when the first uses of two callers interleave, no write of the
\* template replaces a document that holds an entry a caller has recorded.
C31_CreatedOnce ==
    last.op = "createFile"
        => \A c \in Callers : ~Includes(last.pre.content, CallEntry(c))

\* the plan holds an item and every item is done
AllDone(plan) ==
    /\ Len(plan) > 0
    /\ \A i \in DOMAIN plan : plan[i].status = "done"

\* C32: once every plan item is done, readyForImplementation is false and
\* validatePlannedToolExecution denies every tool name, and a recordUserIntent,
\* recordImplementationUpdate, recordOpenQuestion or markPlanStepComplete
\* leaves it so.
C32_DoneStaysDenied ==
    (/\ last.op \in {"recordUserIntent", "recordImplementationUpdate",
                      "recordOpenQuestion", "markPlanStepComplete"}
     /\ AllDone(readPlanItems(PreContent)))
        => /\ AllDone(readPlanItems(file))
           /\ ~getDeterminacyState(file).readyForImplementation
           /\ \A toolName \in ToolNames :
                 ~validatePlannedToolExecution(file, "implementer", toolName).allowed

\* C37: recordUserIntent, recordImplementationUpdate and recordOpenQuestion
\* leave the plan-item list and the invariant list read from the document as
\* they were, whatever the text.
C37_RecordersKeepLists ==
    last.op \in {"recordUserIntent", "recordImplementationUpdate", "recordOpenQuestion"}
        => /\ readPlanItems(file) = readPlanItems(PreContent)
           /\ readInvariants(file) = readInvariants(PreContent)

\* C33: on a new container, after a plan of N lines and entry into the
\* implementer phase, validatePlannedToolExecution with the text of a step that
\* is still todo is allowed; when no step is todo any more, all N steps are
\* done and all N seeded invariants are satisfied.
C33_PlanProgress ==
    /\ (/\ last.op = "validatePlannedToolExecution"
        /\ last.pre.phase = "implementer"
        /\ \E i \in DOMAIN readPlanItems(PreContent) :
              /\ readPlanItems(PreContent)[i].status = "todo"
              /\ readPlanItems(PreContent)[i].text = last.text.text)
          => ValidateResult.allowed
    /\ (last.op = "markPlanStepComplete" /\ AllDone(readPlanItems(file)))
          => /\ Len(readInvariants(file)) = Len(readPlanItems(file))
             /\ \A i \in DOMAIN readInvariants(file) :
                   readInvariants(file)[i].status = "satisfied"

\* the number of satisfied invariants of a list
SatisfiedIn(invariants) ==
    Cardinality({i \in DOMAIN invariants : invariants[i].status = "satisfied"})

\* after holds the invariants of before, each with the status it had or moved
\* from unknown to satisfied
MovedForward(before, after) ==
    /\ Len(after) = Len(before)
    /\ \A i \in DOMAIN before :
          /\ after[i].description = before[i].description
          /\ \/ after[i].status = before[i].status
             \/ before[i].status = "unknown" /\ after[i].status = "satisfied"

\* C34: across every engine operation the invariants read from the document
\* keep their number, order and descriptions, and a status changes only from
\* unknown to satisfied; invariants appear only when recordPlanUpdate seeds
\* an empty list, all of them unknown; the determinacy does not decrease.
C34_StatusesMoveForward ==
    last.op \in {"recordUserIntent", "recordPlanUpdate", "recordImplementationUpdate",
                 "recordOpenQuestion", "setPhase", "markPlanStepComplete"}
        => /\ \/ MovedForward(readInvariants(PreContent), readInvariants(file))
              \/ /\ readInvariants(PreContent) = <<>>
                 /\ last.op = "recordPlanUpdate"
                 /\ \A i \in DOMAIN readInvariants(file) :
                       readInvariants(file)[i].status = "unknown"
           /\ SatisfiedIn(readInvariants(file)) >= SatisfiedIn(readInvariants(PreContent))

\* C35: markPlanStepComplete takes effect in every phase and without a
\* preceding allow, also when planItemId names no plan item or a done one:
\* the first unknown invariant becomes satisfied, the Implementation section
\* gains the entry of the step, and the phase in memory is implementer.
C35_CompleteStepUngated ==
    last.op = "markPlanStepComplete"
        => /\ currentPhase = "implementer"
           /\ Includes(SectionSlice(file, SECTION_HEADINGS.implementation),
                       <<"[A3 Implementer:", "plan_step", "]", SP, "@", SP, TS, ":", SP>>
                           \o Summary(last.id, last.text.text))
           /\ FirstUnknown(readInvariants(PreContent)) # 0
                 => readInvariants(file)[FirstUnknown(readInvariants(PreContent))].status
                        = "satisfied"

\* a completion in a phase that was never set, under an id that names no plan
\* item, with an unknown invariant to satisfy
C35_Witness ==
    /\ last.op = "markPlanStepComplete"
    /\ last.pre.phase = UNSET
    /\ last.id = PlanId(7)
    /\ \A i \in DOMAIN readPlanItems(PreContent) : readPlanItems(PreContent)[i].id # last.id
    /\ FirstUnknown(readInvariants(PreContent)) = 3
    /\ readInvariants(file)[3].status = "satisfied"
    /\ currentPhase = "implementer"

\* C36: markPlanStepComplete leaves the id and the text of every plan item
\* as they were: each item read before the call is read after it under the
\* same id with the same text.
C36_IdsStable ==
    last.op = "markPlanStepComplete"
        => \A i \in DOMAIN readPlanItems(PreContent) :
              /\ i \in DOMAIN readPlanItems(file)
              /\ readPlanItems(file)[i].id = readPlanItems(PreContent)[i].id
              /\ readPlanItems(file)[i].text = readPlanItems(PreContent)[i].text

\* some todo item of the plan contains the name, letter case ignored
SomeOpenMatch(plan, name) ==
    \E i \in DOMAIN plan :
        plan[i].status = "todo" /\ ContainsIgnoreCase(plan[i].text, name)

\* the reason the priority phase, readiness, matching step gives; "" for none
ReasonByPriority(phase, ready, matched) ==
    IF phase # "implementer"
    THEN "SAS is not in implementer phase; plan steps must be approved first."
    ELSE IF ~ready THEN "Determinacy too low or no open plan items to execute."
    ELSE IF ~matched THEN "Tool request is not mapped to any open plan step."
    ELSE ""

\* result is the decision the priority gives for the state, the phase and the
\* name, in the shape of a deny or of an allow
ShapedByPriority(result, state, phase, name) ==
    /\ result.reason = ReasonByPriority(phase, state.readyForImplementation,
                                        SomeOpenMatch(state.plan, name))
    /\ result.allowed = (result.reason = "")
    /\ result.allowed = (result.planItemId # NoId)

\* C38: a denial of validatePlannedToolExecution gives the phase reason when
\* the phase is not implementer, else the readiness reason when
\* readyForImplementation is false, else the no-matching-step reason; a deny
\* carries a reason and no planItemId, an allow a planItemId and no reason.
C38_ReasonPriority ==
    last.op = "validatePlannedToolExecution"
        => ShapedByPriority(ValidateResult, GetDeterminacyStateResult,
                            last.pre.phase, last.text.text)

\* a call outside the implementer phase on a document that is not ready and
\* has no step matching the name: the phase reason is returned
C38_Witness ==
    /\ last.op = "validatePlannedToolExecution"
    /\ last.pre.phase = "planner"
    /\ ~GetDeterminacyStateResult.readyForImplementation
    /\ ~SomeOpenMatch(GetDeterminacyStateResult.plan, last.text.text)
    /\ ~ValidateResult.allowed
    /\ ValidateResult.reason = REASON_PHASE

====
